---- MODULE Spec2Model ----
(***************************************************************************)
(* A model of the refinement pipeline of dl/refine.py: the distribution    *)
(* analyzer, the content-type classifier, the text and CSV structure       *)
(* extractors, the two comparators and their orchestrator                  *)
(* refine_similarity.                                                      *)
(*                                                                         *)
(* Python values are modelled as follows.                                  *)
(*   str   a sequence of one-character strings (so that lower(), strip(),  *)
(*         startswith(), endswith() and the `in` substring test are        *)
(*         computed character by character);                               *)
(*   None  the one-element sequence None below, which is no str because    *)
(*         its element is not a single character;                          *)
(*   dict  a function from keys to values, a missing key being a key       *)
(*         outside its DOMAIN; the empty dict is the empty function;       *)
(*   list  a JSON array read from a profile is List(seq): the sequence of  *)
(*         its elements after the marker "[]", so that a list, a str and   *)
(*         None can be told apart (isinstance, truthiness); a list the     *)
(*         code builds is a plain sequence;                                *)
(*   set   a set;  labels that the code only compares as a whole           *)
(*         ("folder", "CSV", ...) are TLA+ strings.                        *)
(***************************************************************************)
EXTENDS Integers, Sequences, FiniteSets, TLC

VARIABLES
    dp,            \* dp[i]: the profile loaded for dataset i (refine.py:470-471)
    content_type,  \* content_type[i]: result of infer_content_type(dp[i])
    dist,          \* dist[i]: result of analyze_distribution(dp[i])
    txt,           \* txt[i]: result of extract_txt_documents(dp[i])
    csv,           \* csv[i]: result of extract_csv_tables_with_samples(dp[i])
    txt_cmp,       \* result of compare_txt_files(txt[1], txt[2])
    csv_cmp,       \* result of compare_csv_schemas_with_samples(csv[1], csv[2])
    ran,           \* the calls made so far, as <<function name, dataset>>
    result,        \* the value returned by refine_similarity (refine.py:468, 525)
    files,         \* files[i]: the file folder/dataprofile{i} (refine.py:464-465)
    peer,          \* a second invocation, refine_similarity(folder, name2, name1)
    front,         \* the request handler or background task that calls refine
    JOBS,          \* the job table of fastapi_app.py:38
    DLRepository,  \* the files of CACHE_DIR, by name (utils.py:5)
    call,          \* the last call of compute_similarities and what it returned
    request        \* a request for a job's status or result, served concurrently

\* the cache directory and the similarity call that uses it
disk == <<DLRepository, call>>

\* the state outside the locals of the stages of refine.py:473-485
others == <<result, files, peer, front, JOBS, DLRepository, call, request>>

vars == <<dp, content_type, dist, txt, csv, txt_cmp, csv_cmp, ran, others>>

(***************************************************************************)
(* Python values                                                           *)
(***************************************************************************)
None == <<"None">>

\* d.get(k)
Get(d, k) == IF k \in DOMAIN d THEN d[k] ELSE None

\* truthiness of a str or None
Truthy(x) == x # None /\ x # << >>

\* `a or b` for a str or None a
Or(a, b) == IF Truthy(a) THEN a ELSE b

List(seq) == <<"[]">> \o seq

IsList(v) == Len(v) > 0 /\ v[1] = "[]"

\* `d.get(k, []) or []` where d[k] is a JSON array, null or missing
GetList(d, k) == IF IsList(Get(d, k)) THEN Tail(Get(d, k)) ELSE << >>

\* `d.get(k, {}) or {}` where d[k] is a JSON object or missing
GetDict(d, k) == IF k \in DOMAIN d THEN d[k] ELSE << >>

(***************************************************************************)
(* Characters in code-point order, and the str methods the code uses       *)
(***************************************************************************)
Chars ==
    <<" ", "*", "-", ".", "/",
      "0", "1", "2", "3", "4", "5", "6", "7", "8", "9", ":",
      "A", "B", "C", "D", "E", "F", "G", "H", "I", "J", "K", "L", "M",
      "N", "O", "P", "Q", "R", "S", "T", "U", "V", "W", "X", "Y", "Z", "_",
      "a", "b", "c", "d", "e", "f", "g", "h", "i", "j", "k", "l", "m",
      "n", "o", "p", "q", "r", "s", "t", "u", "v", "w", "x", "y", "z">>

Ord(c) == CHOOSE i \in 1..Len(Chars) : Chars[i] = c

FirstUpper == Ord("A")

FirstLower == Ord("a")

LowerChar(c) ==
    IF Ord(c) >= FirstUpper /\ Ord(c) < FirstUpper + 26
    THEN Chars[Ord(c) - FirstUpper + FirstLower]
    ELSE c

Lower(s) == [i \in 1..Len(s) |-> LowerChar(s[i])]

StartsWith(s, prefix) ==
    Len(prefix) <= Len(s) /\ SubSeq(s, 1, Len(prefix)) = prefix

EndsWith(s, suffix) ==
    Len(suffix) <= Len(s) /\ SubSeq(s, Len(s) - Len(suffix) + 1, Len(s)) = suffix

Contains(s, sub) ==
    \E i \in 0..(Len(s) - Len(sub)) : SubSeq(s, i + 1, i + Len(sub)) = sub

Strip(s) ==
    IF \A i \in 1..Len(s) : s[i] = " "
    THEN << >>
    ELSE LET first == CHOOSE i \in 1..Len(s) :
                          s[i] # " " /\ \A j \in 1..(i - 1) : s[j] = " "
             last  == CHOOSE i \in 1..Len(s) :
                          s[i] # " " /\ \A j \in (i + 1)..Len(s) : s[j] = " "
         IN  SubSeq(s, first, last)

\* a < b in Python's str order (code points, then length)
StrLess(a, b) ==
    \E k \in 1..(Len(b)) :
        /\ \A j \in 1..(k - 1) : j <= Len(a) /\ a[j] = b[j]
        /\ \/ k = Len(a) + 1
           \/ k <= Len(a) /\ Ord(a[k]) < Ord(b[k])

RECURSIVE Sorted(_)
\* sorted(S) of a set of str
Sorted(S) ==
    IF S = {} THEN << >>
    ELSE LET m == CHOOSE x \in S : \A y \in S \ {x} : StrLess(x, y)
         IN  <<m>> \o Sorted(S \ {m})

Elems(s) == {s[i] : i \in 1..Len(s)}

(***************************************************************************)
(* The str literals of refine.py                                           *)
(***************************************************************************)
DOT_CSV == <<".", "c", "s", "v">>

DOT_TXT == <<".", "t", "x", "t">>

DOT_SQL == <<".", "s", "q", "l">>

DOT_PDF == <<".", "p", "d", "f">>

DOT_XLS == <<".", "x", "l", "s">>

DOT_XLSX == <<".", "x", "l", "s", "x">>

TEXT_CSV == <<"t", "e", "x", "t", "/", "c", "s", "v">>

TEXT_PLAIN == <<"t", "e", "x", "t", "/", "p", "l", "a", "i", "n">>

APPLICATION_SQL ==
    <<"a", "p", "p", "l", "i", "c", "a", "t", "i", "o", "n", "/", "s", "q", "l">>

APPLICATION_PDF ==
    <<"a", "p", "p", "l", "i", "c", "a", "t", "i", "o", "n", "/", "p", "d", "f">>

APPLICATION_EXCEL ==
    <<"a", "p", "p", "l", "i", "c", "a", "t", "i", "o", "n", "/",
      "v", "n", "d", ".", "m", "s", "-", "e", "x", "c", "e", "l">>

TEXT_SLASH == <<"t", "e", "x", "t", "/">>

EXCEL == <<"e", "x", "c", "e", "l">>

SQL == <<"s", "q", "l">>

FILESET == <<"F", "i", "l", "e", "S", "e", "t">>

FILEOBJECT == <<"F", "i", "l", "e", "O", "b", "j", "e", "c", "t">>

DOCUMENT == <<"D", "o", "c", "u", "m", "e", "n", "t">>

(***************************************************************************)
(* 1) Distribution helpers                                                 *)
(***************************************************************************)
\* refine.py:63-69
JoinedPaths(d) ==
    Lower(Or(Get(d, "includes"), << >>)) \o <<" ">>
      \o Lower(Or(Get(d, "contentUrl"), << >>)) \o <<" ">>
      \o Lower(Or(Get(d, "name"), << >>))

\* refine.py:71-82 with the tests of .csv and .txt exchanged
GuessRulesTxtFirst(joined) ==
    IF Contains(joined, DOT_TXT) THEN TEXT_PLAIN
    ELSE IF Contains(joined, DOT_CSV) THEN TEXT_CSV
    ELSE IF Contains(joined, DOT_SQL) THEN APPLICATION_SQL
    ELSE IF Contains(joined, DOT_PDF) THEN APPLICATION_PDF
    ELSE IF Contains(joined, DOT_XLS) \/ Contains(joined, DOT_XLSX)
         THEN APPLICATION_EXCEL
    ELSE None

\* refine.py:71-82, on the joined string
GuessRules(joined) ==
    IF Contains(joined, DOT_CSV) THEN TEXT_CSV
    ELSE IF Contains(joined, DOT_TXT) THEN TEXT_PLAIN
    ELSE IF Contains(joined, DOT_SQL) THEN APPLICATION_SQL
    ELSE IF Contains(joined, DOT_PDF) THEN APPLICATION_PDF
    ELSE IF Contains(joined, DOT_XLS) \/ Contains(joined, DOT_XLSX)
         THEN APPLICATION_EXCEL
    ELSE None

_guess_format_from_paths(d) == GuessRules(JoinedPaths(d))

\* dist.get("encodingFormat") or _guess_format_from_paths(dist)
\* (refine.py:96, 206, 293)
ResolveEncoding(d) ==
    Or(Get(d, "encodingFormat"), _guess_format_from_paths(d))

\* refine.py:95
CrType(d) == Strip(Or(Get(d, "@type"), << >>))

\* refine.py:98-103
Kind(cr_type) ==
    IF EndsWith(cr_type, FILESET) THEN "folder"
    ELSE IF EndsWith(cr_type, FILEOBJECT) THEN "file"
    ELSE "other"

\* refine.py:105-115 with includes copied for every kind
ItemWithIncludes(d) ==
    [id             |-> Get(d, "@id"),
     name           |-> Get(d, "name"),
     kind           |-> Kind(CrType(d)),
     croissant_type |-> CrType(d),
     encodingFormat |-> ResolveEncoding(d),
     includes       |-> Get(d, "includes"),
     contentUrl     |-> Get(d, "contentUrl")]

\* refine.py:105-115
Item(d) ==
    [id             |-> Get(d, "@id"),
     name           |-> Get(d, "name"),
     kind           |-> Kind(CrType(d)),
     croissant_type |-> CrType(d),
     encodingFormat |-> ResolveEncoding(d),
     includes       |-> IF Kind(CrType(d)) = "folder"
                        THEN Get(d, "includes") ELSE None,
     contentUrl     |-> Get(d, "contentUrl")]

\* profile_data.get("distribution", []) or []
RawDistribution(profile_data) == GetList(profile_data, "distribution")

CountKind(items, kind) == Cardinality({i \in 1..Len(items) : items[i].kind = kind})

analyze_distribution(profile_data) ==
    LET raw   == RawDistribution(profile_data)
        items == [i \in 1..Len(raw) |-> Item(raw[i])]
    IN  [total   |-> Len(items),
         folders |-> CountKind(items, "folder"),
         files   |-> CountKind(items, "file"),
         other   |-> CountKind(items, "other"),
         items   |-> items]

(***************************************************************************)
(* 2) Content classification                                               *)
(***************************************************************************)
\* refine.py:151-162 without the `"excel" in encoding` test
ItemFlagNoExcel(it) ==
    LET encoding == Lower(Or(it.encodingFormat, << >>))
    IN  IF ~Truthy(encoding) THEN "other"
        ELSE IF StartsWith(encoding, TEXT_SLASH) /\ encoding # TEXT_CSV THEN "text"
        ELSE IF encoding = TEXT_CSV THEN "csv"
        ELSE IF Contains(encoding, SQL) THEN "sql"
        ELSE "other"

\* One pass of the loop body, refine.py:151-162: the flag the item sets.
ItemFlag(it) ==
    LET encoding == Lower(Or(it.encodingFormat, << >>))
    IN  IF ~Truthy(encoding) THEN "other"
        ELSE IF StartsWith(encoding, TEXT_SLASH) /\ encoding # TEXT_CSV THEN "text"
        ELSE IF encoding = TEXT_CSV \/ Contains(encoding, EXCEL) THEN "csv"
        ELSE IF Contains(encoding, SQL) THEN "sql"
        ELSE "other"

\* refine.py:164-173, a variant that drops the `not has_sql` conjuncts
DecideNoSqlGuard(has_text, has_csv, has_sql, has_other) ==
    IF has_text /\ ~has_csv /\ ~has_other THEN "TEXTUAL"
    ELSE IF has_csv /\ ~has_text /\ ~has_other THEN "CSV"
    ELSE IF has_sql THEN "SQL"
    ELSE "MIXED"

\* refine.py:164-173, a variant whose purity tests ignore has_other
DecideIgnoreOther(has_text, has_csv, has_sql, has_other) ==
    IF has_text /\ ~has_csv /\ ~has_sql THEN "TEXTUAL"
    ELSE IF has_csv /\ ~has_text /\ ~has_sql THEN "CSV"
    ELSE IF has_sql THEN "SQL"
    ELSE "MIXED"

\* refine.py:164-173
Decide(has_text, has_csv, has_sql, has_other) ==
    IF has_text /\ ~has_csv /\ ~has_sql /\ ~has_other THEN "TEXTUAL"
    ELSE IF has_csv /\ ~has_text /\ ~has_sql /\ ~has_other THEN "CSV"
    ELSE IF has_sql THEN "SQL"
    ELSE "MIXED"

\* infer_content_type without the early return of refine.py:142-143
InferNoEarlyReturn(profile_data) ==
    LET items   == analyze_distribution(profile_data).items
        Has(f)  == \E i \in 1..Len(items) : ItemFlag(items[i]) = f
    IN  Decide(Has("text"), Has("csv"), Has("sql"), Has("other"))

infer_content_type(profile_data) ==
    LET items   == analyze_distribution(profile_data).items
        Has(f)  == \E i \in 1..Len(items) : ItemFlag(items[i]) = f
    IN  IF Len(items) = 0 THEN "UNKNOWN"
        ELSE Decide(Has("text"), Has("csv"), Has("sql"), Has("other"))

(***************************************************************************)
(* 3) Structural extraction                                                *)
(***************************************************************************)
\* refine.py:319-321 without the `or []`: a null becomes the list [None],
\* whose element str() turns into "None"
AsListOfNone(v) ==
    IF IsList(v) THEN Tail(v)
    ELSE IF v = None THEN <<<<"N", "o", "n", "e">>>>
    ELSE <<v>>

\* kws = field.get("keywords") or []; if isinstance(kws, str): kws = [kws]
\* (refine.py:238-240); samples = field.get("sample") or [];
\* if not isinstance(samples, list): samples = [samples] (refine.py:319-321)
AsList(v) ==
    IF ~Truthy(v) \/ v = List(<< >>) THEN << >>
    ELSE IF IsList(v) THEN Tail(v)
    ELSE <<v>>

\* {str(k).strip().lower() for k in kws if str(k).strip()}
\* (refine.py:243-247, 324-328)
NormSet(seq) ==
    {Lower(Strip(seq[i])) : i \in {j \in 1..Len(seq) : Strip(seq[j]) # << >>}}

RECURSIVE Flatten(_)
Flatten(seqs) ==
    IF Len(seqs) = 0 THEN << >> ELSE Head(seqs) \o Flatten(Tail(seqs))

\* for recordset in profile_data.get("recordSet", []) or []:
\*     for field in recordset.get("field", []) or []:
AllFields(profile_data) ==
    LET rsets == GetList(profile_data, "recordSet")
    IN  Flatten([i \in 1..Len(rsets) |-> GetList(rsets[i], "field")])

\* refine.py:229-231
FieldFileSetId(field) ==
    Get(GetDict(GetDict(field, "source"), "fileSet"), "@id")

\* refine.py:202-213: the distribution entry is recorded as a text file-set
IsTxtSet(d) ==
    /\ EndsWith(CrType(d), FILESET)
    /\ Lower(Or(ResolveEncoding(d), << >>)) = TEXT_PLAIN
    /\ Truthy(Get(d, "@id"))

\* refine.py:214-219
TxtSetInfo(d) ==
    [id         |-> Get(d, "@id"),
     name       |-> Get(d, "name"),
     includes   |-> Get(d, "includes"),
     contentUrl |-> Get(d, "contentUrl")]

\* refine.py:229-236 without the test of the field's @type
IsDocumentOfAnyType(field, fs_id) ==
    /\ FieldFileSetId(field) = fs_id
    /\ Strip(Or(Get(field, "name"), << >>)) # << >>

\* refine.py:226-236: the field is recorded as a document of file-set fs_id
IsDocumentOf(field, fs_id) ==
    /\ EndsWith(Or(Get(field, "@type"), << >>), DOCUMENT)
    /\ FieldFileSetId(field) = fs_id
    /\ Strip(Or(Get(field, "name"), << >>)) # << >>

\* refine.py:234-256
DocumentRecord(field) ==
    LET doc_name == Strip(Or(Get(field, "name"), << >>))
    IN  [name      |-> doc_name,
         name_norm |-> Lower(doc_name),
         keywords  |-> Sorted(NormSet(AsList(Get(field, "keywords"))))]

RECURSIVE DocumentsOf(_, _)
\* the documents appended to documents_by_fs[fs_id], in field order
DocumentsOf(fields, fs_id) ==
    IF Len(fields) = 0 THEN << >>
    ELSE (IF IsDocumentOf(Head(fields), fs_id)
          THEN <<DocumentRecord(Head(fields))>> ELSE << >>)
         \o DocumentsOf(Tail(fields), fs_id)

\* for docs in documents_by_fs.values() for d in docs
DocsIn(documents_by_fs) ==
    UNION {Elems(documents_by_fs[k]) : k \in DOMAIN documents_by_fs}

\* refine.py:258-265 collecting d.get("name") instead of d.get("name_norm")
AllNamesByName(documents_by_fs) ==
    Sorted({d.name : d \in {x \in DocsIn(documents_by_fs) : Truthy(x.name)}})

\* refine.py:258-265
AllNames(documents_by_fs) ==
    Sorted({d.name_norm : d \in {x \in DocsIn(documents_by_fs) : Truthy(x.name_norm)}})

\* refine.py:267-274
\* a variant that keeps the least keyword only
AllKeywordsLeastOnly(documents_by_fs) ==
    LET all == Sorted(UNION {Elems(d.keywords) : d \in DocsIn(documents_by_fs)})
    IN  IF Len(all) = 0 THEN << >> ELSE <<all[1]>>

AllKeywords(documents_by_fs) ==
    Sorted(UNION {Elems(d.keywords) : d \in DocsIn(documents_by_fs)})

extract_txt_documents(profile_data) ==
    LET raw      == RawDistribution(profile_data)
        sets     == {i \in 1..Len(raw) : IsTxtSet(raw[i])}
        ids      == {Get(raw[i], "@id") : i \in sets}
        \* a later entry with the same @id overwrites an earlier one
        LastOf(id) == CHOOSE i \in sets :
                         /\ Get(raw[i], "@id") = id
                         /\ \A j \in sets : Get(raw[j], "@id") = id => j <= i
        txt_sets == [id \in ids |-> TxtSetInfo(raw[LastOf(id)])]
        documents_by_fs ==
            [id \in ids |-> DocumentsOf(AllFields(profile_data), id)]
    IN  [file_sets             |-> txt_sets,
         documents_by_file_set |-> documents_by_fs,
         all_document_names    |-> AllNames(documents_by_fs),
         all_document_keywords |-> AllKeywords(documents_by_fs)]

\* refine.py:293-298 reading only the declared encodingFormat
IsCsvSourceDeclaredOnly(d) ==
    LET encoding == Lower(Or(Get(d, "encodingFormat"), << >>))
    IN  /\ encoding = TEXT_CSV \/ Contains(encoding, EXCEL)
        /\ Truthy(Get(d, "@id"))

\* refine.py:293-298: the distribution entry becomes a table
IsCsvSource(d) ==
    LET encoding == Lower(Or(ResolveEncoding(d), << >>))
    IN  /\ encoding = TEXT_CSV \/ Contains(encoding, EXCEL)
        /\ Truthy(Get(d, "@id"))

\* refine.py:310-312
FieldSourceId(field) ==
    LET source == GetDict(field, "source")
        fs     == GetDict(source, "fileSet")
        ref    == IF DOMAIN fs # {} THEN fs ELSE GetDict(source, "fileObject")
    IN  Get(ref, "@id")

\* refine.py:315
ColumnName(field) == Lower(Strip(Or(Get(field, "name"), << >>)))

\* refine.py:314-336 with one columns mapping shared by all tables
ColumnSamplesShared(fields, src_id, col) ==
    Sorted(UNION {NormSet(AsList(Get(fields[i], "sample"))) :
                    i \in {j \in 1..Len(fields) : ColumnName(fields[j]) = col}})

\* refine.py:314-331 and 335-336: the samples of column col of table src_id
ColumnSamples(fields, src_id, col) ==
    Sorted(UNION {NormSet(AsList(Get(fields[i], "sample"))) :
                    i \in {j \in 1..Len(fields) :
                             /\ FieldSourceId(fields[j]) = src_id
                             /\ ColumnName(fields[j]) = col}})

\* refine.py:299-303 and 308-337: the table of source src_id
Table(raw, fields, src_id) ==
    LET last == CHOOSE i \in 1..Len(raw) :
                    /\ IsCsvSource(raw[i]) /\ Get(raw[i], "@id") = src_id
                    /\ \A j \in (i + 1)..Len(raw) :
                          ~(IsCsvSource(raw[j]) /\ Get(raw[j], "@id") = src_id)
        cols == {ColumnName(fields[i]) :
                    i \in {j \in 1..Len(fields) :
                             /\ FieldSourceId(fields[j]) = src_id
                             /\ ColumnName(fields[j]) # << >>}}
    IN  [id      |-> src_id,
         name    |-> Or(Get(raw[last], "name"), src_id),
         columns |-> [c \in cols |-> ColumnSamples(fields, src_id, c)]]

RECURSIVE SourceIds(_, _)
\* the keys of csv_sources in insertion order (refine.py:292-303)
SourceIds(raw, seen) ==
    IF Len(raw) = 0 THEN << >>
    ELSE IF IsCsvSource(Head(raw)) /\ Get(Head(raw), "@id") \notin seen
         THEN <<Get(Head(raw), "@id")>>
              \o SourceIds(Tail(raw), seen \cup {Get(Head(raw), "@id")})
         ELSE SourceIds(Tail(raw), seen)

extract_csv_tables_with_samples(profile_data) ==
    LET raw    == RawDistribution(profile_data)
        ids    == SourceIds(raw, {})
        fields == AllFields(profile_data)
        tables == [i \in 1..Len(ids) |-> Table(raw, fields, ids[i])]
    IN  IF Len(ids) = 0
        THEN [tables |-> << >>, all_columns |-> << >>]
        ELSE [tables      |-> tables,
              all_columns |->
                  Sorted(UNION {DOMAIN tables[i].columns : i \in 1..Len(tables)})]

(***************************************************************************)
(* 4) Comparisons                                                          *)
(***************************************************************************)
\* set(struct.get(k) or []) for a list the extractors built
GetSet(struct, k) == IF k \in DOMAIN struct THEN Elems(struct[k]) ELSE {}

\* refine.py:359 with `names1 and names2` in place of `names1 & names2`
CommonSortedAnd(a, b) == IF a # {} /\ b # {} THEN Sorted(b) ELSE << >>

\* sorted(a & b) if a and b else []   (refine.py:359, 363, 407)
CommonSorted(a, b) == IF a # {} /\ b # {} THEN Sorted(a \cap b) ELSE << >>

\* refine.py:365-374 keyed by the document's name instead of its name_norm
NameToKeywordsByName(txt_info, n) ==
    LET docs_by_fs == GetDict(txt_info, "documents_by_file_set")
    IN  UNION {Elems(d.keywords) :
                 d \in {x \in DocsIn(docs_by_fs) : Truthy(x.name) /\ x.name = n}}

\* refine.py:365-374, read at one name: out.get(n, set())
NameToKeywords(txt_info, n) ==
    LET docs_by_fs == GetDict(txt_info, "documents_by_file_set")
    IN  UNION {Elems(d.keywords) :
                 d \in {x \in DocsIn(docs_by_fs) :
                          Truthy(x.name_norm) /\ x.name_norm = n}}

\* refine.py:381-390 with common_keywords = sorted(k1)
PerDocRecordLeft(txt1, txt2, n) ==
    LET k1 == NameToKeywords(txt1, n)
        k2 == NameToKeywords(txt2, n)
    IN  [document_name     |-> n,
         common_keywords   |-> Sorted(k1),
         dataset1_keywords |-> Sorted(k1),
         dataset2_keywords |-> Sorted(k2)]

\* refine.py:381-390
PerDocRecord(txt1, txt2, n) ==
    LET k1 == NameToKeywords(txt1, n)
        k2 == NameToKeywords(txt2, n)
    IN  [document_name     |-> n,
         common_keywords   |-> Sorted(k1 \cap k2),
         dataset1_keywords |-> Sorted(k1),
         dataset2_keywords |-> Sorted(k2)]

\* a variant whose lists of dataset 1 also take in the other side
CompareTxtFilesMerged(txt1, txt2) ==
    LET names1       == GetSet(txt1, "all_document_names")
        names2       == GetSet(txt2, "all_document_names")
        common_names == CommonSorted(names1, names2)
        kw1          == GetSet(txt1, "all_document_keywords")
        kw2          == GetSet(txt2, "all_document_keywords")
    IN  [dataset1_document_names      |-> Sorted(names1 \cup names2),
         dataset2_document_names      |-> Sorted(names2),
         common_document_names        |-> common_names,
         dataset1_document_keywords   |-> Sorted(kw1 \cup kw2),
         dataset2_document_keywords   |-> Sorted(kw2),
         common_document_keywords     |-> CommonSorted(kw1, kw2),
         per_document_keyword_overlap |->
             [i \in 1..Len(common_names) |->
                 PerDocRecord(txt1, txt2, common_names[i])]]

compare_txt_files(txt1, txt2) ==
    LET names1       == GetSet(txt1, "all_document_names")
        names2       == GetSet(txt2, "all_document_names")
        common_names == CommonSorted(names1, names2)
        kw1          == GetSet(txt1, "all_document_keywords")
        kw2          == GetSet(txt2, "all_document_keywords")
    IN  [dataset1_document_names      |-> Sorted(names1),
         dataset2_document_names      |-> Sorted(names2),
         common_document_names        |-> common_names,
         dataset1_document_keywords   |-> Sorted(kw1),
         dataset2_document_keywords   |-> Sorted(kw2),
         common_document_keywords     |-> CommonSorted(kw1, kw2),
         per_document_keyword_overlap |->
             [i \in 1..Len(common_names) |->
                 PerDocRecord(txt1, txt2, common_names[i])]]

\* csv_struct.get("tables", [])
Tables(csv_struct) ==
    IF "tables" \in DOMAIN csv_struct THEN csv_struct["tables"] ELSE << >>

\* refine.py:409-414 with `out[column] = set(samples)`: the last table wins
BuildSampleMapOverwrite(csv_struct, col) ==
    LET tables == Tables(csv_struct)
        having == {j \in 1..Len(tables) : col \in DOMAIN tables[j].columns}
    IN  IF having = {} THEN {}
        ELSE Elems(tables[CHOOSE j \in having : \A k \in having : k <= j].columns[col])

\* refine.py:409-414, read at one column: out.get(col, set())
BuildSampleMap(csv_struct, col) ==
    LET tables == Tables(csv_struct)
    IN  UNION {Elems(tables[i].columns[col]) :
                 i \in {j \in 1..Len(tables) : col \in DOMAIN tables[j].columns}}

\* refine.py:421-430
PerColumnRecord(csv1, csv2, col) ==
    LET s1 == BuildSampleMap(csv1, col)
        s2 == BuildSampleMap(csv2, col)
    IN  [column           |-> col,
         dataset1_samples |-> Sorted(s1),
         dataset2_samples |-> Sorted(s2),
         common_samples   |-> Sorted(s1 \cap s2)]

compare_csv_schemas_with_samples(csv1, csv2) ==
    LET cols1       == GetSet(csv1, "all_columns")
        cols2       == GetSet(csv2, "all_columns")
        common_cols == CommonSorted(cols1, cols2)
    IN  [dataset1_columns          |-> Sorted(cols1),
         dataset2_columns          |-> Sorted(cols2),
         common_columns            |-> common_cols,
         per_column_sample_overlap |->
             [i \in 1..Len(common_cols) |->
                 PerColumnRecord(csv1, csv2, common_cols[i])]]

(***************************************************************************)
(* The calls of the pipeline (refine.py:473-485), one action per call      *)
(***************************************************************************)
Sides == {1, 2}

NotRun == "NotRun"

\* a file that exists and holds the JSON text of value
JsonFile(value) == [exists |-> TRUE, json |-> TRUE, value |-> value]

\* an invocation that has not started
PeerIdle == [pc |-> "start", outcome |-> NotRun]

\* compute_similarities has not been called
NoCall == [made |-> FALSE]

\* no job is being asked about
NoPoll == [endpoint |-> "none", pc |-> "done"]

\* no request is being served
NoRequest == [handler |-> "none", pc |-> "done"]

Idle ==
    /\ result = NotRun
    /\ peer = PeerIdle
    /\ JOBS = << >>
    /\ DLRepository = << >>
    /\ call = NoCall
    /\ request = NoPoll
    /\ content_type = [i \in Sides |-> NotRun]
    /\ dist = [i \in Sides |-> NotRun]
    /\ txt = [i \in Sides |-> NotRun]
    /\ csv = [i \in Sides |-> NotRun]
    /\ txt_cmp = NotRun
    /\ csv_cmp = NotRun
    /\ ran = {}

\* content_type{i} = infer_content_type(dp{i})
InferContentType(i) ==
    /\ <<"infer_content_type", i>> \notin ran
    /\ content_type' = [content_type EXCEPT ![i] = infer_content_type(dp[i])]
    /\ ran' = ran \cup {<<"infer_content_type", i>>}
    /\ UNCHANGED <<others, dp, dist, txt, csv, txt_cmp, csv_cmp>>

\* dist{i} = analyze_distribution(dp{i})
AnalyzeDistribution(i) ==
    /\ <<"analyze_distribution", i>> \notin ran
    /\ dist' = [dist EXCEPT ![i] = analyze_distribution(dp[i])]
    /\ ran' = ran \cup {<<"analyze_distribution", i>>}
    /\ UNCHANGED <<others, dp, content_type, txt, csv, txt_cmp, csv_cmp>>

\* txt{i} = extract_txt_documents(dp{i})
ExtractTxt(i) ==
    /\ <<"extract_txt_documents", i>> \notin ran
    /\ txt' = [txt EXCEPT ![i] = extract_txt_documents(dp[i])]
    /\ ran' = ran \cup {<<"extract_txt_documents", i>>}
    /\ UNCHANGED <<others, dp, content_type, dist, csv, txt_cmp, csv_cmp>>

\* an extractor that empties the recordSet of the profile it has read
ExtractCsvInPlace(i) ==
    /\ <<"extract_csv_tables_with_samples", i>> \notin ran
    /\ csv' = [csv EXCEPT ![i] = extract_csv_tables_with_samples(dp[i])]
    /\ dp' = [dp EXCEPT ![i] = ("recordSet" :> List(<< >>)) @@ dp[i]]
    /\ ran' = ran \cup {<<"extract_csv_tables_with_samples", i>>}
    /\ UNCHANGED <<others, content_type, dist, txt, txt_cmp, csv_cmp>>

\* csv{i} = extract_csv_tables_with_samples(dp{i})
ExtractCsv(i) ==
    /\ <<"extract_csv_tables_with_samples", i>> \notin ran
    /\ csv' = [csv EXCEPT ![i] = extract_csv_tables_with_samples(dp[i])]
    /\ ran' = ran \cup {<<"extract_csv_tables_with_samples", i>>}
    /\ UNCHANGED <<others, dp, content_type, dist, txt, txt_cmp, csv_cmp>>

\* txt_cmp = compare_txt_files(txt1, txt2)
CompareTxt ==
    /\ \A i \in Sides : <<"extract_txt_documents", i>> \in ran
    /\ <<"compare_txt_files", 0>> \notin ran
    /\ txt_cmp' = compare_txt_files(txt[1], txt[2])
    /\ ran' = ran \cup {<<"compare_txt_files", 0>>}
    /\ UNCHANGED <<others, dp, content_type, dist, txt, csv, csv_cmp>>

\* csv_cmp = compare_csv_schemas_with_samples(csv1, csv2)
CompareCsv ==
    /\ \A i \in Sides : <<"extract_csv_tables_with_samples", i>> \in ran
    /\ <<"compare_csv_schemas_with_samples", 0>> \notin ran
    /\ csv_cmp' = compare_csv_schemas_with_samples(csv[1], csv[2])
    /\ ran' = ran \cup {<<"compare_csv_schemas_with_samples", 0>>}
    /\ UNCHANGED <<others, dp, content_type, dist, txt, csv, txt_cmp>>

Ran(f, i) == <<f, i>> \in ran

(***************************************************************************)
(* 5) Main refinement pipeline: refine_similarity                          *)
(*                                                                         *)
(* A file is [exists, json, value]: whether the path exists, whether its   *)
(* text is well-formed JSON, and the value json.loads returns for it.      *)
(***************************************************************************)
NOT_FOUND ==
    <<"O", "n", "e", " ", "o", "r", " ", "b", "o", "t", "h", " ", "f", "i", "l",
      "e", "s", " ", "n", "o", "t", " ", "f", "o", "u", "n", "d", ":", " ">>

SLASH_BETWEEN == <<" ", "/", " ">>

NOTE_DATASET1 ==
    <<"D", "a", "t", "a", "s", "e", "t", "1", " ", "c", "o", "n", "t", "e", "n",
      "t", " ", "t", "y", "p", "e", ":", " ">>

NOTE_DATASET2 ==
    <<"D", "a", "t", "a", "s", "e", "t", "2", " ", "c", "o", "n", "t", "e", "n",
      "t", " ", "t", "y", "p", "e", ":", " ">>

TXT_FOUND == <<"T", "X", "T", ":", " ", "f", "o", "u", "n", "d", " ">>

COMMON_DOCUMENT_NAMES ==
    <<" ", "c", "o", "m", "m", "o", "n", " ", "d", "o", "c", "u", "m", "e", "n",
      "t", " ", "n", "a", "m", "e", "s", ".">>

COMMON_DOCUMENT_KEYWORDS ==
    <<" ", "c", "o", "m", "m", "o", "n", " ", "d", "o", "c", "u", "m", "e", "n",
      "t", " ", "k", "e", "y", "w", "o", "r", "d", "s", ".">>

TXT_KEYWORD_OVERLAP ==
    <<"T", "X", "T", ":", " ", "k", "e", "y", "w", "o", "r", "d", " ", "o", "v",
      "e", "r", "l", "a", "p", " ", "d", "e", "t", "e", "c", "t", "e", "d", " ",
      "f", "o", "r", " ">>

COMMON_NAMED_DOCUMENTS ==
    <<" ", "c", "o", "m", "m", "o", "n", "-", "n", "a", "m", "e", "d", " ", "d",
      "o", "c", "u", "m", "e", "n", "t", "s", ".">>

CSV_FOUND == <<"C", "S", "V", ":", " ", "f", "o", "u", "n", "d", " ">>

COMMON_COLUMN_NAMES ==
    <<" ", "c", "o", "m", "m", "o", "n", " ", "c", "o", "l", "u", "m", "n", " ",
      "n", "a", "m", "e", "s", ".">>

NO_SIMILARITY ==
    <<"N", "o", " ", "c", "l", "e", "a", "r", " ", "s", "t", "r", "u", "c", "t",
      "u", "r", "a", "l", " ", "s", "i", "m", "i", "l", "a", "r", "i", "t", "y",
      " ", "f", "o", "u", "n", "d", " ", "(", "T", "X", "T", " ", "o", "r", " ",
      "C", "S", "V", ")", ".">>

\* the label of infer_content_type as the str it is
LabelStr(label) ==
    CASE label = "TEXTUAL" -> <<"T", "E", "X", "T", "U", "A", "L">>
      [] label = "CSV"     -> <<"C", "S", "V">>
      [] label = "SQL"     -> <<"S", "Q", "L">>
      [] label = "MIXED"   -> <<"M", "I", "X", "E", "D">>
      [] label = "UNKNOWN" -> <<"U", "N", "K", "N", "O", "W", "N">>

DigitChars == <<"0", "1", "2", "3", "4", "5", "6", "7", "8", "9">>

RECURSIVE Str(_)
\* the decimal digits of a natural number, as an f-string formats a len()
Str(n) ==
    IF n < 10 THEN <<DigitChars[n + 1]>>
    ELSE Str(n \div 10) \o <<DigitChars[(n % 10) + 1]>>

RECURSIVE Join(_)
\* " ".join(notes)
Join(notes) ==
    IF Len(notes) = 0 THEN << >>
    ELSE IF Len(notes) = 1 THEN notes[1]
    ELSE notes[1] \o <<" ">> \o Join(Tail(notes))

\* folder / name, for a relative name (refine.py:464-465)
PathJoin(folder, name) == folder \o <<"/">> \o name

\* refine.py:467 testing only file1.exists()
FilesFoundFirstOnly(f1, f2) == f1.exists

\* refine.py:467: both paths exist
FilesFound(f1, f2) == f1.exists /\ f2.exists

\* refine.py:468
ErrorObject(file1, file2) ==
    ("error" :> (NOT_FOUND \o file1 \o SLASH_BETWEEN \o file2))

\* json.loads that answers {} for a text that is not JSON
ParsesLenient(f) == TRUE

\* refine.py:470-471: file.read_text() and json.loads() succeed
Parses(f) == f.exists /\ f.json

\* refine.py:518-522 without the common_columns conjunct
NothingInCommonTxtOnly(tc, cc) ==
    /\ Len(tc.common_document_names) = 0
    /\ Len(tc.common_document_keywords) = 0

\* refine.py:518-522: the condition of the fallback sentence
NothingInCommon(tc, cc) ==
    /\ Len(tc.common_document_names) = 0
    /\ Len(tc.common_document_keywords) = 0
    /\ Len(cc.common_columns) = 0

\* refine.py:505-506
PerDocWithOverlap(tc) ==
    Cardinality({i \in 1..Len(tc.per_document_keyword_overlap) :
                   Len(tc.per_document_keyword_overlap[i].common_keywords) > 0})

\* refine.py:487-523: the list notes
Notes(ct1, ct2, tc, cc) ==
    <<NOTE_DATASET1 \o LabelStr(ct1) \o <<".">>,
      NOTE_DATASET2 \o LabelStr(ct2) \o <<".">>>>
    \o (IF Len(tc.common_document_names) > 0
        THEN <<TXT_FOUND \o Str(Len(tc.common_document_names))
                 \o COMMON_DOCUMENT_NAMES>>
        ELSE << >>)
    \o (IF Len(tc.common_document_keywords) > 0
        THEN <<TXT_FOUND \o Str(Len(tc.common_document_keywords))
                 \o COMMON_DOCUMENT_KEYWORDS>>
        ELSE << >>)
    \o (IF PerDocWithOverlap(tc) > 0
        THEN <<TXT_KEYWORD_OVERLAP \o Str(PerDocWithOverlap(tc))
                 \o COMMON_NAMED_DOCUMENTS>>
        ELSE << >>)
    \o (IF Len(cc.common_columns) > 0
        THEN <<CSV_FOUND \o Str(Len(cc.common_columns)) \o COMMON_COLUMN_NAMES>>
        ELSE << >>)
    \o (IF NothingInCommon(tc, cc) THEN <<NO_SIMILARITY>> ELSE << >>)

\* refine.py:525-539; names, cts, dists, txts and csvs are the pairs of
\* locals of dataset 1 and dataset 2
Report(names, cts, dists, txts, csvs, tc, cc) ==
    [dataprofile1              |-> names[1],
     dataprofile2              |-> names[2],
     dataprofile1_content_type |-> cts[1],
     dataprofile2_content_type |-> cts[2],
     distribution_dataset1     |-> dists[1],
     distribution_dataset2     |-> dists[2],
     txt_structure_dataset1    |-> txts[1],
     txt_structure_dataset2    |-> txts[2],
     csv_structure_dataset1    |-> csvs[1],
     csv_structure_dataset2    |-> csvs[2],
     txt_comparison            |-> tc,
     csv_schema_comparison     |-> cc,
     note                      |-> Join(Notes(cts[1], cts[2], tc, cc))]

\* refine.py:473-539 on the two loaded profiles
Refine(dataprofile1, dataprofile2, dp1, dp2) ==
    LET txt1 == extract_txt_documents(dp1)
        txt2 == extract_txt_documents(dp2)
        csv1 == extract_csv_tables_with_samples(dp1)
        csv2 == extract_csv_tables_with_samples(dp2)
    IN  Report(<<dataprofile1, dataprofile2>>,
               <<infer_content_type(dp1), infer_content_type(dp2)>>,
               <<analyze_distribution(dp1), analyze_distribution(dp2)>>,
               <<txt1, txt2>>, <<csv1, csv2>>,
               compare_txt_files(txt1, txt2),
               compare_csv_schemas_with_samples(csv1, csv2))

\* the whole call, on files f1 and f2: what it returns, or that it raises
refine_similarity(folder_path, dataprofile1, dataprofile2, f1, f2) ==
    IF ~FilesFound(f1, f2)
    THEN [kind  |-> "return",
          value |-> ErrorObject(PathJoin(folder_path, dataprofile1),
                                PathJoin(folder_path, dataprofile2))]
    ELSE IF ~Parses(f1) \/ ~Parses(f2)
    THEN [kind |-> "raise", value |-> << >>]
    ELSE [kind  |-> "return",
          value |-> Refine(dataprofile1, dataprofile2, f1.value, f2.value)]

\* the arguments of the call
FOLDER == <<"p", "r", "o", "f", "i", "l", "e", "s">>

NAME_A == <<"a", ".", "j", "s", "o", "n">>

NAME_B == <<"b", ".", "j", "s", "o", "n">>

Returned == Ran("return", 0)

Raised == Ran("raise", 0)

\* refine.py:467-468
CheckExists ==
    /\ ran = {}
    /\ IF FilesFound(files[1], files[2])
       THEN /\ ran' = {<<"exists", 0>>}
            /\ UNCHANGED result
       ELSE /\ ran' = {<<"exists", 0>>, <<"return", 0>>}
            /\ result' = ErrorObject(PathJoin(FOLDER, NAME_A),
                                     PathJoin(FOLDER, NAME_B))
    /\ UNCHANGED <<dp, content_type, dist, txt, csv, txt_cmp, csv_cmp, files, disk, request, peer,
                   front, JOBS>>

\* dp{i} = json.loads(file{i}.read_text(encoding="utf-8"))  (refine.py:470-471)
LoadProfile(i) ==
    /\ <<"json.loads", i>> \notin ran
    /\ ~Returned /\ ~Raised
    /\ IF Parses(files[i])
       THEN /\ dp' = [dp EXCEPT ![i] = files[i].value]
            /\ ran' = ran \cup {<<"json.loads", i>>}
       ELSE /\ ran' = ran \cup {<<"raise", 0>>}
            /\ UNCHANGED dp
    /\ UNCHANGED <<content_type, dist, txt, csv, txt_cmp, csv_cmp, others>>

\* refine.py:487-539
Return ==
    /\ Ran("compare_csv_schemas_with_samples", 0)
    /\ ~Returned
    /\ result' = Report(<<NAME_A, NAME_B>>, content_type, dist, txt, csv,
                        txt_cmp, csv_cmp)
    /\ ran' = ran \cup {<<"return", 0>>}
    /\ UNCHANGED <<dp, content_type, dist, txt, csv, txt_cmp, csv_cmp, files, disk, request, peer,
                   front, JOBS>>

\* the second invocation, with the two names exchanged: refine.py:467-468
PeerCheck ==
    /\ peer.pc = "start"
    /\ peer' = IF FilesFound(files[2], files[1])
               THEN [peer EXCEPT !.pc = "checked"]
               ELSE [pc      |-> "done",
                     outcome |-> ErrorObject(PathJoin(FOLDER, NAME_B),
                                             PathJoin(FOLDER, NAME_A))]
    /\ UNCHANGED <<dp, content_type, dist, txt, csv, txt_cmp, csv_cmp, ran,
                   result, files, disk, request, front, JOBS>>

\* the second invocation: refine.py:470-539
PeerRun ==
    /\ peer.pc = "checked"
    /\ peer' = IF Parses(files[2]) /\ Parses(files[1])
               THEN [pc      |-> "done",
                     outcome |-> Refine(NAME_B, NAME_A,
                                        files[2].value, files[1].value)]
               ELSE [peer EXCEPT !.pc = "raised"]
    /\ UNCHANGED <<dp, content_type, dist, txt, csv, txt_cmp, csv_cmp, ran,
                   result, files, disk, request, front, JOBS>>

(***************************************************************************)
(* Inputs: distribution entries                                            *)
(***************************************************************************)
MaxDist == 2

SeqsUpTo(S, n) == UNION {[1..k -> S] : k \in 0..n}

CR_FILESET == <<"c", "r", ":", "F", "i", "l", "e", "S", "e", "t">>

CR_FILEOBJECT == <<"c", "r", ":", "F", "i", "l", "e", "O", "b", "j", "e", "c", "t">>

TEXT_X_SQL == <<"t", "e", "x", "t", "/", "x", "-", "s", "q", "l">>

TEXT_HTML == <<"t", "e", "x", "t", "/", "h", "t", "m", "l">>

TEXT_PLAIN_MIXED_CASE == <<"T", "e", "x", "t", "/", "P", "l", "a", "i", "n">>

GLOB_TXT == <<"*", ".", "t", "x", "t">>

GLOB_TXT_UPPER == <<"*", ".", "T", "X", "T">>

GLOB_CSV == <<"*", ".", "c", "s", "v">>

URL_CSV ==
    <<"h", "t", "t", "p", ":", "/", "/", "x", "/", "d", "a", "t", "a", ".", "c", "s", "v">>

NAME_SQL == <<"d", "u", "m", "p", ".", "s", "q", "l">>

NAME_XLSX == <<"s", "h", "e", "e", "t", ".", "x", "l", "s", "x">>

NAME_NOTES == <<"n", "o", "t", "e", "s">>

ID_FS1 == <<"f", "s", "1">>

ID_FS2 == <<"f", "s", "2">>

ID_FS3 == <<"f", "s", "3">>

ID_T1 == <<"t", "1">>

ID_T2 == <<"t", "2">>

ID_Q1 == <<"q", "1">>

ID_Q2 == <<"q", "2">>

ID_Q3 == <<"q", "3">>

ID_H1 == <<"h", "1">>

ID_X1 == <<"x", "1">>

ID_X2 == <<"x", "2">>

ID_U1 == <<"u", "1">>

ID_P1 == <<"p", "1">>

Entry(type, id) == ("@type" :> type) @@ ("@id" :> id)

TxtFolder ==
    Entry(CR_FILESET, ID_FS1) @@ ("encodingFormat" :> TEXT_PLAIN)
        @@ ("includes" :> GLOB_TXT)

TxtFolderMixedCase ==
    Entry(CR_FILESET, ID_FS2) @@ ("encodingFormat" :> TEXT_PLAIN_MIXED_CASE)
        @@ ("includes" :> GLOB_CSV)

TxtFolderGuessed ==
    Entry(CR_FILESET, ID_FS3) @@ ("encodingFormat" :> << >>)
        @@ ("includes" :> GLOB_TXT_UPPER)

CsvByUrl == Entry(CR_FILEOBJECT, ID_T1) @@ ("contentUrl" :> URL_CSV)

CsvByUrlNoId == ("@type" :> CR_FILEOBJECT) @@ ("contentUrl" :> URL_CSV)

CsvDeclared ==
    Entry(CR_FILEOBJECT, ID_T2) @@ ("encodingFormat" :> TEXT_CSV)
        @@ ("includes" :> GLOB_CSV)

ExcelDeclared ==
    Entry(CR_FILEOBJECT, ID_X1) @@ ("encodingFormat" :> APPLICATION_EXCEL)

ExcelByName ==
    Entry(CR_FILEOBJECT, ID_X2) @@ ("encodingFormat" :> None)
        @@ ("name" :> NAME_XLSX)

SqlDeclared ==
    Entry(CR_FILEOBJECT, ID_Q1) @@ ("encodingFormat" :> APPLICATION_SQL)

SqlByName == Entry(CR_FILEOBJECT, ID_Q2) @@ ("name" :> NAME_SQL)

TextXSql == Entry(CR_FILEOBJECT, ID_Q3) @@ ("encodingFormat" :> TEXT_X_SQL)

TextHtml == Entry(CR_FILEOBJECT, ID_H1) @@ ("encodingFormat" :> TEXT_HTML)

PdfDeclared ==
    Entry(CR_FILEOBJECT, ID_P1) @@ ("encodingFormat" :> APPLICATION_PDF)

Unresolved ==
    ("@id" :> ID_U1) @@ ("name" :> NAME_NOTES) @@ ("includes" :> NAME_NOTES)

DistEntries ==
    {TxtFolder, TxtFolderMixedCase, TxtFolderGuessed, CsvByUrl, CsvByUrlNoId,
     CsvDeclared, ExcelDeclared, ExcelByName, SqlDeclared, SqlByName, TextXSql,
     TextHtml, PdfDeclared, Unresolved}

\* a profile that has only its name, and one whose distribution is null
NoDistribution == ("name" :> NAME_NOTES)

NullDistribution == ("name" :> NAME_NOTES) @@ ("distribution" :> None)

ClassifyProfiles ==
    {NoDistribution, NullDistribution}
      \cup {("name" :> NAME_NOTES) @@ ("distribution" :> List(s)) :
              s \in SeqsUpTo(DistEntries, MaxDist)}

(***************************************************************************)
(* The single-profile stages on dataset 1                                  *)
(***************************************************************************)
InitClassify ==
    /\ dp \in {<<p, NoDistribution>> : p \in ClassifyProfiles}
    /\ files = [i \in Sides |-> JsonFile(dp[i])]
    /\ front = NoRequest
    /\ Idle

NextClassify ==
    \/ InferContentType(1)
    \/ AnalyzeDistribution(1)
    \/ ExtractCsv(1)

SpecClassify == InitClassify /\ [][NextClassify]_vars

(***************************************************************************)
(* Inputs: record-set fields, and the profiles compared pairwise           *)
(***************************************************************************)
MaxFields == 2

DG_DOCUMENT == <<"d", "g", ":", "D", "o", "c", "u", "m", "e", "n", "t">>

CR_FIELD == <<"c", "r", ":", "F", "i", "e", "l", "d">>

NAME_MANIFEST == <<"M", "a", "n", "i", "f", "e", "s", "t">>

NAME_MANIFEST_LOWER == <<"m", "a", "n", "i", "f", "e", "s", "t">>

NAME_README_PADDED == <<" ", "R", "E", "A", "D", "M", "E", " ">>

NAME_BLANK == <<" ", " ">>

NAME_PRICE_PADDED == <<"P", "r", "i", "c", "e", " ">>

NAME_PRICE_LOWER == <<"p", "r", "i", "c", "e">>

NAME_QTY == <<"q", "t", "y">>

KW_INTRO == <<"I", "n", "t", "r", "o">>

KW_DATA_UPPER == <<"D", "A", "T", "A">>

KW_DATA == <<"d", "a", "t", "a">>

KW_EXTRA == <<"e", "x", "t", "r", "a">>

SAMPLE_1 == <<"1">>

SAMPLE_2_PADDED == <<"2", " ">>

SAMPLE_2 == <<"2">>

SAMPLE_3 == <<"3">>

FromFileSet(id) == ("source" :> ("fileSet" :> ("@id" :> id)))

FromFileObject(id) == ("source" :> ("fileObject" :> ("@id" :> id)))

Field(type, name) == ("@type" :> type) @@ ("name" :> name)

\* Scenario 1 of the design: "Manifest" with keywords ["Intro", "DATA"]
DocManifest ==
    Field(DG_DOCUMENT, NAME_MANIFEST) @@ FromFileSet(ID_FS1)
        @@ ("keywords" :> List(<<KW_INTRO, KW_DATA_UPPER>>))

\* "manifest" with keywords ["data", "extra"], bound to the second file-set
DocManifestLower ==
    Field(DG_DOCUMENT, NAME_MANIFEST_LOWER) @@ FromFileSet(ID_FS2)
        @@ ("keywords" :> List(<<KW_DATA, KW_EXTRA>>))

\* a padded upper-case name, its keywords a single string
DocReadme ==
    Field(DG_DOCUMENT, NAME_README_PADDED) @@ FromFileSet(ID_FS1)
        @@ ("keywords" :> KW_EXTRA)

\* a document whose name is blank
DocBlank ==
    Field(DG_DOCUMENT, NAME_BLANK) @@ FromFileSet(ID_FS1)
        @@ ("keywords" :> List(<<KW_DATA>>))

\* a column of table t1, bound through fileObject
ColPrice ==
    Field(CR_FIELD, NAME_PRICE_PADDED) @@ FromFileObject(ID_T1)
        @@ ("sample" :> List(<<SAMPLE_1, SAMPLE_2_PADDED>>))

\* the same column name in table t2, bound through fileSet, one sample
ColPriceT2 ==
    Field(CR_FIELD, NAME_PRICE_LOWER) @@ FromFileSet(ID_T2)
        @@ ("sample" :> SAMPLE_2)

\* a field whose fileSet object has no @id and whose fileObject is table t1
ColQty ==
    Field(CR_FIELD, NAME_QTY)
        @@ ("source" :> (("fileSet" :> ("name" :> NAME_NOTES))
                           @@ ("fileObject" :> ("@id" :> ID_T1))))
        @@ ("sample" :> List(<<SAMPLE_3>>))

\* a second field of column price of table t1
ColPriceMore ==
    Field(CR_FIELD, NAME_PRICE_LOWER) @@ FromFileObject(ID_T1)
        @@ ("sample" :> List(<<SAMPLE_3, SAMPLE_1>>))

FieldList ==
    <<DocManifest, DocManifestLower, DocReadme, DocBlank,
      ColPrice, ColPriceT2, ColQty>>

RECURSIVE Pick(_, _, _)
\* the elements of list at the indices of I, in list order, from index i on
Pick(list, I, i) ==
    IF i > Len(list) THEN << >>
    ELSE (IF i \in I THEN <<list[i]>> ELSE << >>) \o Pick(list, I, i + 1)

FieldSeqs ==
    {Pick(FieldList, I, 1) :
       I \in {J \in SUBSET (1..Len(FieldList)) : Cardinality(J) <= MaxFields}}

RecordSet(fields) == ("name" :> NAME_NOTES) @@ ("field" :> List(fields))

\* two text file-sets (fs1, fs2) and two tables (t1, t2)
RichDistribution == <<TxtFolder, TxtFolderMixedCase, CsvByUrl, CsvDeclared>>

Profile(distribution, recordSets) ==
    ("name" :> NAME_NOTES) @@ ("distribution" :> List(distribution))
        @@ ("recordSet" :> List(recordSets))

NullRecordSet ==
    ("name" :> NAME_NOTES) @@ ("distribution" :> List(RichDistribution))
        @@ ("recordSet" :> None)

TwoRecordSets ==
    Profile(RichDistribution,
            <<RecordSet(<<DocManifest, ColPrice>>),
              ("name" :> NAME_NOTES),
              RecordSet(<<DocManifestLower, ColPriceMore, ColPriceT2>>)>>)

CompareProfiles ==
    {NoDistribution, NullRecordSet, TwoRecordSets}
      \cup {Profile(RichDistribution, <<RecordSet(fields)>>) : fields \in FieldSeqs}

(***************************************************************************)
(* The extractors and comparators on a pair of profiles, in the order of   *)
(* refine.py:479-485                                                       *)
(***************************************************************************)
InitCompare ==
    /\ dp \in [Sides -> CompareProfiles]
    /\ files = [i \in Sides |-> JsonFile(dp[i])]
    /\ front = NoRequest
    /\ Idle

NextCompare ==
    \/ ExtractTxt(1)
    \/ Ran("extract_txt_documents", 1) /\ ExtractTxt(2)
    \/ CompareTxt
    \/ Ran("compare_txt_files", 0) /\ ExtractCsv(1)
    \/ Ran("extract_csv_tables_with_samples", 1) /\ ExtractCsv(2)
    \/ CompareCsv

SpecCompare == InitCompare /\ [][NextCompare]_vars

(***************************************************************************)
(* Content classification: claims C1-C7                                    *)
(***************************************************************************)
\* the entries of dataset 1's distribution and their resolved encodings,
\* lowercased ("" when unresolved)
Entries1 == GetList(dp[1], "distribution")

Resolved(d) == Lower(Or(ResolveEncoding(d), << >>))

Classified == Ran("infer_content_type", 1)

\* the profile of C1: exactly one entry, no encodingFormat, contentUrl
\* ending in .csv, and no recordSet
C1_Case ==
    /\ Len(Entries1) = 1
    /\ ~Truthy(Get(Entries1[1], "encodingFormat"))
    /\ EndsWith(Or(Get(Entries1[1], "contentUrl"), << >>), DOT_CSV)
    /\ "recordSet" \notin DOMAIN dp[1]
    /\ Classified
    /\ Ran("extract_csv_tables_with_samples", 1)

\* C1 as stated: for a profile whose distribution has exactly one entry with
\* no encodingFormat and a contentUrl ending in .csv, and which has no
\* recordSet, infer_content_type returns CSV and
\* extract_csv_tables_with_samples returns tables == [] and all_columns == [].
C1_NoTables ==
    C1_Case =>
        /\ content_type[1] = "CSV"
        /\ Len(csv[1].tables) = 0
        /\ Len(csv[1].all_columns) = 0

\* C1 amended: for such a profile infer_content_type returns CSV and
\* extract_csv_tables_with_samples returns all_columns == []; tables == []
\* only when the entry has no @id, and otherwise tables holds one table for
\* the entry (its id, its name or else its id) with an empty columns mapping.
C1_EmptyColumns ==
    C1_Case =>
        /\ content_type[1] = "CSV"
        /\ Len(csv[1].all_columns) = 0
        /\ IF Truthy(Get(Entries1[1], "@id"))
           THEN /\ Len(csv[1].tables) = 1
                /\ csv[1].tables[1].id = Get(Entries1[1], "@id")
                /\ csv[1].tables[1].name
                     = Or(Get(Entries1[1], "name"), Get(Entries1[1], "@id"))
                /\ DOMAIN csv[1].tables[1].columns = {}
           ELSE Len(csv[1].tables) = 0

C1_Witness == C1_Case /\ Truthy(Get(Entries1[1], "@id")) /\ Len(csv[1].tables) = 1

\* the reference rule of C2: four booleans computed independently over the
\* lowercased resolved encodings
RefHasText == \E i \in 1..Len(Entries1) :
    StartsWith(Resolved(Entries1[i]), TEXT_SLASH) /\ Resolved(Entries1[i]) # TEXT_CSV

RefHasCsv == \E i \in 1..Len(Entries1) :
    Resolved(Entries1[i]) = TEXT_CSV \/ Contains(Resolved(Entries1[i]), EXCEL)

RefHasSql == \E i \in 1..Len(Entries1) : Contains(Resolved(Entries1[i]), SQL)

RefHasOther == \E i \in 1..Len(Entries1) :
    \/ Resolved(Entries1[i]) = << >>
    \/ /\ ~(StartsWith(Resolved(Entries1[i]), TEXT_SLASH)
             /\ Resolved(Entries1[i]) # TEXT_CSV)
       /\ ~(Resolved(Entries1[i]) = TEXT_CSV
             \/ Contains(Resolved(Entries1[i]), EXCEL))
       /\ ~Contains(Resolved(Entries1[i]), SQL)

RefLabel ==
    IF RefHasText /\ ~RefHasCsv /\ ~RefHasSql /\ ~RefHasOther THEN "TEXTUAL"
    ELSE IF RefHasCsv /\ ~RefHasText /\ ~RefHasSql /\ ~RefHasOther THEN "CSV"
    ELSE IF RefHasSql THEN "SQL"
    ELSE "MIXED"

\* C2: for every non-empty distribution infer_content_type returns the label
\* of the reference rule, whose four booleans are computed independently of
\* each other; in particular an item whose encoding contains "sql" (such as
\* text/x-sql) makes the result SQL.
C2_ReferenceRule ==
    (Classified /\ Len(Entries1) > 0) => content_type[1] = RefLabel

\* C3: SQL precedence. If at least one entry resolves (declared or guessed
\* from a .sql path) to application/sql, infer_content_type returns SQL
\* whatever the other entries are.
C3_SqlPrecedence ==
    (Classified /\ \E i \in 1..Len(Entries1) : Resolved(Entries1[i]) = APPLICATION_SQL)
        => content_type[1] = "SQL"

C3_Witness ==
    /\ Classified
    /\ Len(Entries1) = 2
    /\ Get(Entries1[1], "encodingFormat") = TEXT_PLAIN
    /\ ~Truthy(Get(Entries1[2], "encodingFormat"))
    /\ Resolved(Entries1[2]) = APPLICATION_SQL
    /\ content_type[1] = "SQL"

\* an excel format: an application/... type whose name contains "excel"
APPLICATION_SLASH ==
    <<"a", "p", "p", "l", "i", "c", "a", "t", "i", "o", "n", "/">>

IsExcelFormat(enc) == StartsWith(enc, APPLICATION_SLASH) /\ Contains(enc, EXCEL)

\* C4: content-type purity. A profile with at least one entry, all of whose
\* entries resolve to text/plain, classifies as TEXTUAL; one all of whose
\* entries resolve to text/csv or an excel format classifies as CSV.
C4_Purity ==
    (Classified /\ Len(Entries1) > 0) =>
        /\ (\A i \in 1..Len(Entries1) : Resolved(Entries1[i]) = TEXT_PLAIN)
              => content_type[1] = "TEXTUAL"
        /\ (\A i \in 1..Len(Entries1) :
               Resolved(Entries1[i]) = TEXT_CSV \/ IsExcelFormat(Resolved(Entries1[i])))
              => content_type[1] = "CSV"

C4_Witness ==
    /\ Classified
    /\ Len(Entries1) = 2
    /\ Resolved(Entries1[1]) = TEXT_CSV
    /\ IsExcelFormat(Resolved(Entries1[2]))
    /\ content_type[1] = "CSV"

NoEntries1 ==
    \/ "distribution" \notin DOMAIN dp[1]
    \/ dp[1]["distribution"] = None
    \/ dp[1]["distribution"] = List(<< >>)

\* C6: infer_content_type returns UNKNOWN if and only if the distribution is
\* missing, null or empty; analyze_distribution then returns
\* total = folders = files = other = 0 and no items.
C6_UnknownIffEmpty ==
    /\ Classified => (content_type[1] = "UNKNOWN" <=> NoEntries1)
    /\ (Ran("analyze_distribution", 1) /\ NoEntries1) =>
          /\ dist[1].total = 0 /\ dist[1].folders = 0
          /\ dist[1].files = 0 /\ dist[1].other = 0
          /\ Len(dist[1].items) = 0

C6_Witness ==
    /\ Classified /\ Ran("analyze_distribution", 1)
    /\ "distribution" \in DOMAIN dp[1] /\ dp[1]["distribution"] = None
    /\ content_type[1] = "UNKNOWN" /\ dist[1].total = 0

\* C7: infer_content_type returns TEXTUAL only for profiles all of whose
\* entries resolve to text/plain.
C7_TextualOnlyPlain ==
    (Classified /\ content_type[1] = "TEXTUAL") =>
        \A i \in 1..Len(Entries1) : Resolved(Entries1[i]) = TEXT_PLAIN

(***************************************************************************)
(* Comparisons: claims C8-C10                                              *)
(***************************************************************************)
\* seq lists the elements of S once each, in increasing str order
IsSortedListOf(seq, S) ==
    /\ Elems(seq) = S
    /\ \A i, j \in 1..Len(seq) : i < j => StrLess(seq[i], seq[j])

TxtCompared == Ran("compare_txt_files", 0)

CsvCompared == Ran("compare_csv_schemas_with_samples", 0)

\* the keywords of all documents of dataset i, over all file-sets, whose
\* trimmed and lowercased name is n
KeywordsOfName(i, n) ==
    UNION {Elems(d.keywords) :
             d \in {x \in DocsIn(txt[i].documents_by_file_set) :
                      Lower(Strip(x.name)) = n}}

\* the fields of the only record set of dataset i
OnlyFields(i) ==
    IF "recordSet" \in DOMAIN dp[i] /\ IsList(dp[i]["recordSet"])
          /\ Len(dp[i]["recordSet"]) = 2
    THEN GetList(dp[i]["recordSet"][2], "field")
    ELSE << >>

\* Scenario 1: "Manifest" with ["Intro", "DATA"] against "manifest" with
\* ["data", "extra"]
Scenario1 ==
    /\ OnlyFields(1) = <<DocManifest>>
    /\ OnlyFields(2) = <<DocManifestLower>>
    /\ TxtCompared

\* C8: compare_txt_files emits exactly one per-document record for each name
\* in common_document_names, in sorted name order; dataset{i}_keywords is the
\* union of the keyword sets of all documents of side i whose normalized
\* name equals that name, common_keywords is the intersection of the two;
\* names and keywords that differ only in letter case match.
C8_PerDocumentRecords ==
    TxtCompared =>
        LET names == txt_cmp.common_document_names
            recs  == txt_cmp.per_document_keyword_overlap
        IN  /\ Len(recs) = Len(names)
            /\ \A i, j \in 1..Len(names) : i < j => StrLess(names[i], names[j])
            /\ \A i \in 1..Len(names) :
                  /\ recs[i].document_name = names[i]
                  /\ IsSortedListOf(recs[i].dataset1_keywords,
                                    KeywordsOfName(1, names[i]))
                  /\ IsSortedListOf(recs[i].dataset2_keywords,
                                    KeywordsOfName(2, names[i]))
                  /\ IsSortedListOf(recs[i].common_keywords,
                                    KeywordsOfName(1, names[i])
                                      \cap KeywordsOfName(2, names[i]))
            /\ Scenario1 =>
                  /\ names = <<NAME_MANIFEST_LOWER>>
                  /\ recs[1].common_keywords = <<KW_DATA>>

\* two documents of dataset 1 in different file-sets share the name of a
\* document of dataset 2
C8_Witness ==
    /\ TxtCompared
    /\ OnlyFields(1) = <<DocManifest, DocManifestLower>>
    /\ OnlyFields(2) = <<DocManifestLower>>
    /\ Len(txt_cmp.per_document_keyword_overlap) = 1
    /\ Len(txt_cmp.per_document_keyword_overlap[1].dataset1_keywords) = 3
    /\ Len(txt_cmp.per_document_keyword_overlap[1].common_keywords) = 2

\* the samples of column col over all tables of dataset i that have it
SamplesOfColumn(i, col) ==
    UNION {Elems(csv[i].tables[t].columns[col]) :
             t \in {u \in 1..Len(csv[i].tables) :
                      col \in DOMAIN csv[i].tables[u].columns}}

\* C9: compare_csv_schemas_with_samples emits exactly one record for each
\* column in common_columns, in sorted column order; dataset{i}_samples is
\* the union of that column's samples over all tables of side i that have a
\* column of that name, and common_samples is the intersection of the two.
C9_PerColumnRecords ==
    CsvCompared =>
        LET cols == csv_cmp.common_columns
            recs == csv_cmp.per_column_sample_overlap
        IN  /\ Len(recs) = Len(cols)
            /\ \A i, j \in 1..Len(cols) : i < j => StrLess(cols[i], cols[j])
            /\ \A i \in 1..Len(cols) :
                  /\ recs[i].column = cols[i]
                  /\ IsSortedListOf(recs[i].dataset1_samples,
                                    SamplesOfColumn(1, cols[i]))
                  /\ IsSortedListOf(recs[i].dataset2_samples,
                                    SamplesOfColumn(2, cols[i]))
                  /\ IsSortedListOf(recs[i].common_samples,
                                    SamplesOfColumn(1, cols[i])
                                      \cap SamplesOfColumn(2, cols[i]))

\* two tables of dataset 1 have a column "price", and so has dataset 2
C9_Witness ==
    /\ CsvCompared
    /\ OnlyFields(1) = <<ColPrice, ColPriceT2>>
    /\ OnlyFields(2) = <<ColPriceT2>>
    /\ Len(csv[1].tables) = 2
    /\ Len(csv_cmp.per_column_sample_overlap) = 1
    /\ csv_cmp.per_column_sample_overlap[1].dataset1_samples = <<SAMPLE_1, SAMPLE_2>>
    /\ csv_cmp.per_column_sample_overlap[1].common_samples = <<SAMPLE_2>>

\* C10: common_document_names, common_document_keywords and common_columns
\* are the sorted intersections of the two sides' all_document_names,
\* all_document_keywords and all_columns; when either side's set is empty
\* the result is the empty list.
C10_SortedIntersections ==
    /\ TxtCompared =>
          /\ IsSortedListOf(txt_cmp.common_document_names,
                            Elems(txt[1].all_document_names)
                              \cap Elems(txt[2].all_document_names))
          /\ IsSortedListOf(txt_cmp.common_document_keywords,
                            Elems(txt[1].all_document_keywords)
                              \cap Elems(txt[2].all_document_keywords))
          /\ (\E i \in Sides : Len(txt[i].all_document_names) = 0)
                => Len(txt_cmp.common_document_names) = 0
          /\ (\E i \in Sides : Len(txt[i].all_document_keywords) = 0)
                => Len(txt_cmp.common_document_keywords) = 0
    /\ CsvCompared =>
          /\ IsSortedListOf(csv_cmp.common_columns,
                            Elems(csv[1].all_columns) \cap Elems(csv[2].all_columns))
          /\ (\E i \in Sides : Len(csv[i].all_columns) = 0)
                => Len(csv_cmp.common_columns) = 0

\* one side has documents and no columns, the other columns and no documents
C10_Witness ==
    /\ TxtCompared /\ CsvCompared
    /\ Len(txt[1].all_document_names) = 2 /\ Len(txt[2].all_document_names) = 0
    /\ Len(csv[1].all_columns) = 0 /\ Len(csv[2].all_columns) = 1
    /\ Len(txt_cmp.common_document_names) = 0
    /\ Len(csv_cmp.common_columns) = 0

(***************************************************************************)
(* Structure invariants of the extractors: claims C12, C13                 *)
(***************************************************************************)
\* C12: in the TextStructure returned by extract_txt_documents the keys of
\* documents_by_file_set are exactly the keys of file_sets;
\* all_document_names is the sorted duplicate-free list of the name_norm of
\* all documents of all file-sets, and all_document_keywords the sorted
\* duplicate-free union of all documents' keywords.
C12_TextStructure ==
    \A i \in Sides : Ran("extract_txt_documents", i) =>
        /\ DOMAIN txt[i].documents_by_file_set = DOMAIN txt[i].file_sets
        /\ IsSortedListOf(txt[i].all_document_names,
              {d.name_norm : d \in DocsIn(txt[i].documents_by_file_set)})
        /\ IsSortedListOf(txt[i].all_document_keywords,
              UNION {Elems(d.keywords) : d \in DocsIn(txt[i].documents_by_file_set)})

\* two file-sets with one document each, of the same normalized name
C12_Witness ==
    /\ Ran("extract_txt_documents", 1)
    /\ OnlyFields(1) = <<DocManifest, DocManifestLower>>
    /\ Len(txt[1].documents_by_file_set[ID_FS1]) = 1
    /\ Len(txt[1].documents_by_file_set[ID_FS2]) = 1
    /\ txt[1].all_document_names = <<NAME_MANIFEST_LOWER>>
    /\ Len(txt[1].all_document_keywords) = 3

\* the normalized samples of the fields of dataset i bound to table src_id
\* whose normalized name is col
SamplesOfFields(i, src_id, col) ==
    LET fields == AllFields(dp[i])
    IN  UNION {NormSet(AsList(Get(fields[k], "sample"))) :
                 k \in {j \in 1..Len(fields) :
                          /\ FieldSourceId(fields[j]) = src_id
                          /\ Lower(Strip(Or(Get(fields[j], "name"), << >>))) = col}}

\* C13: in the CsvStructure returned by extract_csv_tables_with_samples every
\* column name is lowercased, trimmed and non-empty; the samples of a column
\* of a table are the sorted duplicate-free union of the samples of the
\* fields of that name bound to that table, and of no field bound to another
\* table; all_columns is the sorted union of the tables' column names.
C13_CsvStructure ==
    \A i \in Sides : Ran("extract_csv_tables_with_samples", i) =>
        /\ \A t \in 1..Len(csv[i].tables) :
              \A c \in DOMAIN csv[i].tables[t].columns :
                  /\ Len(c) > 0 /\ c = Lower(c) /\ c = Strip(c)
                  /\ IsSortedListOf(csv[i].tables[t].columns[c],
                                    SamplesOfFields(i, csv[i].tables[t].id, c))
        /\ IsSortedListOf(csv[i].all_columns,
              UNION {DOMAIN csv[i].tables[t].columns : t \in 1..Len(csv[i].tables)})

\* column price of table t1 merges two fields, and table t2 keeps its own
C13_Witness ==
    /\ Ran("extract_csv_tables_with_samples", 1)
    /\ dp[1] = TwoRecordSets
    /\ Len(csv[1].tables) = 2
    /\ csv[1].tables[1].columns[NAME_PRICE_LOWER] = <<SAMPLE_1, SAMPLE_2, SAMPLE_3>>
    /\ csv[1].tables[2].columns[NAME_PRICE_LOWER] = <<SAMPLE_2>>
    /\ csv[1].all_columns = <<NAME_PRICE_LOWER>>

(***************************************************************************)
(* Inputs of refine_similarity: the two files                              *)
(***************************************************************************)
\* a document of fs1 that has no keywords key
DocManifestBare == Field(DG_DOCUMENT, NAME_MANIFEST) @@ FromFileSet(ID_FS1)

\* a document of fs2 whose keywords are the empty list
DocReadmeEmpty ==
    Field(DG_DOCUMENT, NAME_README_PADDED) @@ FromFileSet(ID_FS2)
        @@ ("keywords" :> List(<< >>))

\* a column of t1 that has no sample key
ColPriceBare == Field(CR_FIELD, NAME_PRICE_LOWER) @@ FromFileObject(ID_T1)

\* a column of t2 whose sample is null
ColQtyNull ==
    Field(CR_FIELD, NAME_QTY) @@ FromFileSet(ID_T2) @@ ("sample" :> None)

\* a profile with a distribution and no recordSet key
NoRecordSet == ("name" :> NAME_NOTES) @@ ("distribution" :> List(RichDistribution))

\* a profile with a recordSet and no distribution key
FieldsOnly ==
    ("name" :> NAME_NOTES)
        @@ ("recordSet" :> List(<<RecordSet(<<DocManifest, ColPrice>>)>>))

\* a profile whose fields have empty or absent keywords and samples
SparseProfile ==
    Profile(RichDistribution,
            <<RecordSet(<<DocManifestBare, DocReadmeEmpty, ColPriceBare, ColQtyNull>>)>>)

\* Scenario 1's first dataset with a column: documents, keywords and columns
ScenarioProfile ==
    Profile(RichDistribution, <<RecordSet(<<DocManifest, ColPrice>>)>>)

\* "manifest" with keywords ["data", "extra"]
ManifestLowerProfile ==
    Profile(RichDistribution, <<RecordSet(<<DocManifestLower>>)>>)

\* a "Manifest" without keywords beside a readme with keyword "extra"
BareAndReadme ==
    Profile(RichDistribution, <<RecordSet(<<DocManifestBare, DocReadme>>)>>)

MaxRefineFields == 1

RefineFieldList ==
    <<DocManifest, DocManifestLower, DocReadme, DocManifestBare, ColPrice>>

RefineFieldSeqs ==
    {Pick(RefineFieldList, I, 1) :
       I \in {J \in SUBSET (1..Len(RefineFieldList)) :
                Cardinality(J) <= MaxRefineFields}}

RefineProfiles ==
    {NoDistribution, NoRecordSet, FieldsOnly, SparseProfile,
     ScenarioProfile, ManifestLowerProfile, BareAndReadme}
      \cup {Profile(RichDistribution, <<RecordSet(fields)>>) :
              fields \in RefineFieldSeqs}

\* a path that does not exist, and a file whose text is not JSON
Missing == [exists |-> FALSE, json |-> FALSE, value |-> << >>]

Malformed == [exists |-> TRUE, json |-> FALSE, value |-> << >>]

\* the file a.json, and the fewer files b.json is drawn from
RefineFiles == {Missing, Malformed} \cup {JsonFile(p) : p \in RefineProfiles}

RefineFilesB ==
    {Missing, Malformed, JsonFile(NoDistribution), JsonFile(SparseProfile),
     JsonFile(ScenarioProfile), JsonFile(ManifestLowerProfile)}

(***************************************************************************)
(* refine_similarity(folder, a.json, b.json), statement by statement,      *)
(* interleaved with refine_similarity(folder, b.json, a.json)              *)
(***************************************************************************)
InitRefine ==
    /\ files \in {<<a, b>> : a \in RefineFiles, b \in RefineFilesB}
    /\ dp = [i \in Sides |-> NotRun]
    /\ front = NoRequest
    /\ Idle

NextRefine ==
    \/ CheckExists
    \/ Ran("exists", 0) /\ LoadProfile(1)
    \/ Ran("json.loads", 1) /\ LoadProfile(2)
    \/ Ran("json.loads", 2) /\ InferContentType(1)
    \/ Ran("infer_content_type", 1) /\ InferContentType(2)
    \/ Ran("infer_content_type", 2) /\ AnalyzeDistribution(1)
    \/ Ran("analyze_distribution", 1) /\ AnalyzeDistribution(2)
    \/ Ran("analyze_distribution", 2) /\ ExtractTxt(1)
    \/ Ran("extract_txt_documents", 1) /\ ExtractTxt(2)
    \/ CompareTxt
    \/ Ran("compare_txt_files", 0) /\ ExtractCsv(1)
    \/ Ran("extract_csv_tables_with_samples", 1) /\ ExtractCsv(2)
    \/ CompareCsv
    \/ Return
    \/ PeerCheck
    \/ PeerRun

SpecRefine == InitRefine /\ [][NextRefine]_vars

(***************************************************************************)
(* The orchestrator: claims C14, C15                                       *)
(***************************************************************************)
Stages ==
    ({"infer_content_type", "analyze_distribution", "extract_txt_documents",
      "extract_csv_tables_with_samples"} \X Sides)
      \cup {<<"compare_txt_files", 0>>, <<"compare_csv_schemas_with_samples", 0>>}

IsErrorObject(v) == DOMAIN v = {"error"}

\* C14: if folder/name1 or folder/name2 does not exist, refine_similarity
\* returns an object whose only key is error and whose message names both
\* resolved paths, whichever file is missing and whatever the other file
\* holds: neither file has been parsed, nothing is raised and no stage runs.
C14_NotFound ==
    (Ran("exists", 0) /\ (~files[1].exists \/ ~files[2].exists)) =>
        /\ Returned /\ ~Raised
        /\ IsErrorObject(result)
        /\ Contains(result["error"], PathJoin(FOLDER, NAME_A))
        /\ Contains(result["error"], PathJoin(FOLDER, NAME_B))
        /\ \A i \in Sides : ~Ran("json.loads", i)
        /\ ran \cap Stages = {}

\* the first file is malformed JSON and the second one is missing
C14_Witness ==
    /\ files[1] = Malformed /\ files[2] = Missing
    /\ Returned /\ IsErrorObject(result)

ReportKeys ==
    {"dataprofile1", "dataprofile2",
     "dataprofile1_content_type", "dataprofile2_content_type",
     "distribution_dataset1", "distribution_dataset2",
     "txt_structure_dataset1", "txt_structure_dataset2",
     "csv_structure_dataset1", "csv_structure_dataset2",
     "txt_comparison", "csv_schema_comparison", "note"}

IsReport(v) == DOMAIN v = ReportKeys

\* C15: refine_similarity never yields a partial report. Every value it
\* returns is the single-key error object or a report with all thirteen
\* fields, returned after every stage has run on both profiles; when both
\* files exist and one of them is malformed JSON the call raises: it returns
\* nothing and runs no stage, and it raises in no other case.
C15_NoPartialReport ==
    /\ Returned =>
          \/ IsErrorObject(result) /\ ran \cap Stages = {}
          \/ IsReport(result) /\ Stages \subseteq ran
    /\ (files[1].exists /\ files[2].exists /\ \E i \in Sides : ~files[i].json) =>
          /\ ~Returned
          /\ ran \cap Stages = {}
          /\ (Ran("json.loads", 1) /\ ~files[2].json) => ~Ran("json.loads", 2)
    /\ Raised =>
          /\ ~Returned
          /\ files[1].exists /\ files[2].exists
          /\ \E i \in Sides : ~files[i].json

\* the first file was parsed and the second one is malformed
C15_Witness ==
    /\ files[1] = JsonFile(ScenarioProfile) /\ files[2] = Malformed
    /\ Ran("json.loads", 1) /\ Raised /\ ~Returned

(***************************************************************************)
(* The report: claims C17, C11                                             *)
(***************************************************************************)
ReportReturned == Returned /\ IsReport(result)

\* the sentence of the note for n items, or no sentence when n is 0
SentenceFor(before, n, after) ==
    IF n > 0 THEN <<before \o Str(n) \o after>> ELSE << >>

\* the number of per-document records whose common_keywords is not empty
OverlappingDocuments(tc) ==
    Cardinality({k \in 1..Len(tc.per_document_keyword_overlap) :
                   tc.per_document_keyword_overlap[k].common_keywords # << >>})

\* the sentences (a)-(d) that fire for the report r, in this order
FiredSentences(r) ==
    SentenceFor(TXT_FOUND, Len(r.txt_comparison.common_document_names),
                COMMON_DOCUMENT_NAMES)
    \o SentenceFor(TXT_FOUND, Len(r.txt_comparison.common_document_keywords),
                   COMMON_DOCUMENT_KEYWORDS)
    \o SentenceFor(TXT_KEYWORD_OVERLAP, OverlappingDocuments(r.txt_comparison),
                   COMMON_NAMED_DOCUMENTS)
    \o SentenceFor(CSV_FOUND, Len(r.csv_schema_comparison.common_columns),
                   COMMON_COLUMN_NAMES)

\* C17: the note of every report is the two content-type sentences (dataset
\* 1, then dataset 2) followed by the sentences that fire, in the order (a)
\* common document names, (b) common document keywords, (c) common-named
\* documents with keyword overlap, (d) common CSV columns, joined by single
\* spaces; the fallback sentence is present if and only if none of (a)-(d)
\* fired, and it is then the only sentence after the first two.
C17_NoteOrder ==
    ReportReturned =>
        LET first == <<NOTE_DATASET1 \o LabelStr(result.dataprofile1_content_type)
                         \o <<".">>,
                       NOTE_DATASET2 \o LabelStr(result.dataprofile2_content_type)
                         \o <<".">>>>
            fired == FiredSentences(result)
        IN  /\ result.note =
                  Join(first \o (IF Len(fired) = 0 THEN <<NO_SIMILARITY>> ELSE fired))
            /\ Contains(result.note, NO_SIMILARITY) <=> Len(fired) = 0

\* all four sentences fire
C17_Witness ==
    /\ ReportReturned
    /\ files[1] = JsonFile(ScenarioProfile) /\ files[2] = JsonFile(ScenarioProfile)
    /\ Len(FiredSentences(result)) = 4
    /\ ~Contains(result.note, NO_SIMILARITY)

PeerReturned == peer.pc = "done" /\ IsReport(peer.outcome)

\* C11: order-flip symmetry. refine(folder, A, B) and refine(folder, B, A)
\* report equal common_document_names, common_document_keywords and
\* common_columns, equal common_keywords / common_samples in every
\* per-document and per-column record, and the dataset1_* fields of one call
\* equal the dataset2_* fields of the other.
C11_OrderFlip ==
    (ReportReturned /\ PeerReturned) =>
        LET t  == result.txt_comparison
            u  == peer.outcome.txt_comparison
            c  == result.csv_schema_comparison
            d  == peer.outcome.csv_schema_comparison
            tp == t.per_document_keyword_overlap
            up == u.per_document_keyword_overlap
            cp == c.per_column_sample_overlap
            dq == d.per_column_sample_overlap
        IN  /\ t.common_document_names = u.common_document_names
            /\ t.common_document_keywords = u.common_document_keywords
            /\ c.common_columns = d.common_columns
            /\ t.dataset1_document_names = u.dataset2_document_names
            /\ t.dataset2_document_names = u.dataset1_document_names
            /\ t.dataset1_document_keywords = u.dataset2_document_keywords
            /\ t.dataset2_document_keywords = u.dataset1_document_keywords
            /\ c.dataset1_columns = d.dataset2_columns
            /\ c.dataset2_columns = d.dataset1_columns
            /\ Len(tp) = Len(up)
            /\ \A k \in 1..Len(tp) :
                  /\ tp[k].document_name = up[k].document_name
                  /\ tp[k].common_keywords = up[k].common_keywords
                  /\ tp[k].dataset1_keywords = up[k].dataset2_keywords
                  /\ tp[k].dataset2_keywords = up[k].dataset1_keywords
            /\ Len(cp) = Len(dq)
            /\ \A k \in 1..Len(cp) :
                  /\ cp[k].column = dq[k].column
                  /\ cp[k].common_samples = dq[k].common_samples
                  /\ cp[k].dataset1_samples = dq[k].dataset2_samples
                  /\ cp[k].dataset2_samples = dq[k].dataset1_samples

\* the two profiles differ, share a document name with partly common
\* keywords, and one of them has a column the other lacks
C11_Witness ==
    /\ ReportReturned /\ PeerReturned
    /\ files[1] = JsonFile(ScenarioProfile)
    /\ files[2] = JsonFile(ManifestLowerProfile)
    /\ Len(result.txt_comparison.per_document_keyword_overlap) = 1
    /\ result.txt_comparison.per_document_keyword_overlap[1].common_keywords
         = <<KW_DATA>>
    /\ Len(result.txt_comparison.dataset1_document_keywords) = 2
    /\ Len(peer.outcome.txt_comparison.dataset1_document_keywords) = 2
    /\ Len(result.csv_schema_comparison.dataset1_columns) = 1
    /\ Len(peer.outcome.csv_schema_comparison.dataset1_columns) = 0

(***************************************************************************)
(* Frame: claim C19                                                        *)
(***************************************************************************)
\* C19: an invocation leaves its inputs unchanged and shares no state with
\* another one. No step of either invocation writes a file; a profile, once
\* loaded, equals the parsed file before and after every stage; and each
\* invocation, however its steps interleave with the other's, returns what
\* the call returns on those files when it runs alone.
C19_SideEffectFree ==
    /\ [][files' = files]_vars
    /\ [](\A i \in Sides : Ran("json.loads", i) => dp[i] = files[i].value)
    /\ [](Returned =>
            result = refine_similarity(FOLDER, NAME_A, NAME_B,
                                       files[1], files[2]).value)
    /\ [](peer.pc = "done" =>
            peer.outcome = refine_similarity(FOLDER, NAME_B, NAME_A,
                                             files[2], files[1]).value)

\* the first invocation has returned its report while the second one is
\* between its existence check and its return
C19_Witness ==
    /\ ReportReturned
    /\ peer.pc = "checked"
    /\ files[1] = JsonFile(ScenarioProfile)
    /\ files[2] = JsonFile(ManifestLowerProfile)
    /\ dp[1] = ScenarioProfile /\ dp[2] = ManifestLowerProfile

(***************************************************************************)
(* Absent optional fields: claim C18                                       *)
(***************************************************************************)
\* the profile in file i has no distribution entry (missing, null or empty)
NoDist(i) == Len(GetList(files[i].value, "distribution")) = 0

\* the profile in file i has no field (recordSet missing, null or empty, or
\* record sets without fields)
NoFields(i) == Len(AllFields(files[i].value)) = 0

\* key k of the field is absent, null, "" or []
KeyEmpty(field, k) ==
    \/ k \notin DOMAIN field
    \/ field[k] = None
    \/ Len(field[k]) = 0
    \/ field[k] = List(<< >>)

\* the profile in file i has fields, all without keywords and samples
FieldsSparse(i) ==
    /\ ~NoFields(i)
    /\ \A k \in 1..Len(AllFields(files[i].value)) :
          /\ KeyEmpty(AllFields(files[i].value)[k], "keywords")
          /\ KeyEmpty(AllFields(files[i].value)[k], "sample")

\* all comparison results are empty
NothingCommon ==
    /\ Len(txt_cmp.common_document_names) = 0
    /\ Len(txt_cmp.common_document_keywords) = 0
    /\ Len(txt_cmp.per_document_keyword_overlap) = 0
    /\ Len(csv_cmp.common_columns) = 0
    /\ Len(csv_cmp.per_column_sample_overlap) = 0

\* C18 as stated: a profile with no distribution, no recordSet, or fields
\* with empty or absent keywords/sample never causes an error, yields
\* structures whose name, keyword and column collections are empty (or
\* documents and columns with empty keyword and sample lists), and comparing
\* it with any other profile yields empty common sets and empty per-document
\* and per-column lists.
C18_AllEmpty ==
    \A i \in Sides :
        (files[1].json /\ files[2].json
           /\ (NoDist(i) \/ NoFields(i) \/ FieldsSparse(i))) =>
            /\ ~Raised
            /\ Ran("extract_txt_documents", i) =>
                  Len(txt[i].all_document_keywords) = 0
            /\ CsvCompared => NothingCommon

\* C18 amended: absent optional fields never cause an error and count as
\* zero items. No distribution gives a zero-count summary and structures
\* whose collections are all empty; no field gives empty document lists,
\* names, keywords, column mappings and all_columns; fields without keywords
\* and samples give documents and columns with empty keyword and sample
\* lists. Comparing a profile with no distribution or no field with any
\* other profile yields empty common lists and empty per-document and
\* per-column lists; for a profile whose fields only lack keywords and
\* samples the common names and columns are still reported, and only
\* common_document_keywords and the common_keywords and common_samples of
\* the records are empty.
C18_AbsentIsEmpty ==
    \A i \in Sides : (files[1].json /\ files[2].json) =>
        /\ ~Raised
        /\ (Ran("analyze_distribution", i) /\ NoDist(i)) =>
              /\ dist[i].total = 0 /\ dist[i].folders = 0
              /\ dist[i].files = 0 /\ dist[i].other = 0
              /\ Len(dist[i].items) = 0
        /\ (Ran("extract_txt_documents", i) /\ NoDist(i)) =>
              /\ DOMAIN txt[i].file_sets = {}
              /\ DOMAIN txt[i].documents_by_file_set = {}
        /\ (Ran("extract_csv_tables_with_samples", i) /\ NoDist(i)) =>
              Len(csv[i].tables) = 0
        /\ (Ran("extract_txt_documents", i) /\ (NoDist(i) \/ NoFields(i))) =>
              /\ \A k \in DOMAIN txt[i].documents_by_file_set :
                    Len(txt[i].documents_by_file_set[k]) = 0
              /\ Len(txt[i].all_document_names) = 0
              /\ Len(txt[i].all_document_keywords) = 0
        /\ (Ran("extract_csv_tables_with_samples", i)
              /\ (NoDist(i) \/ NoFields(i))) =>
              /\ \A t \in 1..Len(csv[i].tables) :
                    DOMAIN csv[i].tables[t].columns = {}
              /\ Len(csv[i].all_columns) = 0
        /\ (Ran("extract_txt_documents", i) /\ FieldsSparse(i)) =>
              /\ \A d \in DocsIn(txt[i].documents_by_file_set) :
                    Len(d.keywords) = 0
              /\ Len(txt[i].all_document_keywords) = 0
        /\ (Ran("extract_csv_tables_with_samples", i) /\ FieldsSparse(i)) =>
              \A t \in 1..Len(csv[i].tables) :
                  \A c \in DOMAIN csv[i].tables[t].columns :
                      Len(csv[i].tables[t].columns[c]) = 0
        /\ (CsvCompared /\ (NoDist(i) \/ NoFields(i))) => NothingCommon
        /\ (CsvCompared /\ FieldsSparse(i)) =>
              /\ Len(txt_cmp.common_document_keywords) = 0
              /\ \A k \in 1..Len(txt_cmp.per_document_keyword_overlap) :
                    Len(txt_cmp.per_document_keyword_overlap[k].common_keywords) = 0
              /\ \A k \in 1..Len(csv_cmp.per_column_sample_overlap) :
                    Len(csv_cmp.per_column_sample_overlap[k].common_samples) = 0

\* a profile whose fields lack keywords and samples, compared with one that
\* has a document and a column of the same names
C18_Witness ==
    /\ ReportReturned
    /\ files[1] = JsonFile(SparseProfile) /\ files[2] = JsonFile(ScenarioProfile)
    /\ Len(txt[1].documents_by_file_set[ID_FS1]) = 1
    /\ Len(csv[1].tables[1].columns[NAME_PRICE_LOWER]) = 0
    /\ Len(txt_cmp.per_document_keyword_overlap) = 1
    /\ Len(csv_cmp.per_column_sample_overlap) = 1

(***************************************************************************)
(* 6) build_refinement_profile                                             *)
(***************************************************************************)
REFINEMENT_REPORT ==
    <<"R", "e", "f", "i", "n", "e", "m", "e", "n", "t", "R", "e", "p", "o", "r", "t">>

REFINEMENT_BETWEEN ==
    <<"R", "e", "f", "i", "n", "e", "m", "e", "n", "t", " ", "b", "e", "t", "w",
      "e", "e", "n", " ">>

AND_BETWEEN == <<" ", "a", "n", "d", " ">>

\* f"{v}" for a str or None
Format(v) == IF v = None THEN <<"N", "o", "n", "e">> ELSE v

\* struct.get(k) or [] for a list the pipeline built
GetBuilt(struct, k) == IF k \in DOMAIN struct THEN struct[k] ELSE << >>

\* refine.py:579-585
Formats(distribution) ==
    LET items == GetBuilt(distribution, "items")
    IN  Sorted({Lower(Or(items[i].encodingFormat, << >>)) :
                  i \in {j \in 1..Len(items) : Truthy(items[j].encodingFormat)}})

\* refine.py:572-592, 593-613: the entry of one dataset
DatasetEntry(id, content_type_, distribution, txt_, csv_) ==
    ("@id" :> id) @@ ("contentType" :> content_type_)
      @@ ("distributionSummary" :>
            [total   |-> Get(distribution, "total"),
             folders |-> Get(distribution, "folders"),
             files   |-> Get(distribution, "files"),
             formats |-> Formats(distribution)])
      @@ ("structure" :>
            [textDocuments        |-> GetBuilt(txt_, "all_document_names"),
             textDocumentKeywords |-> GetBuilt(txt_, "all_document_keywords"),
             csvColumns           |-> GetBuilt(csv_, "all_columns")])

build_refinement_profile(report, now_iso) ==
    LET dp1     == Get(report, "dataprofile1")
        dp2     == Get(report, "dataprofile2")
        tc      == GetDict(report, "txt_comparison")
        cc      == GetDict(report, "csv_schema_comparison")
    IN  ("@type" :> REFINEMENT_REPORT)
          @@ ("name" :> (REFINEMENT_BETWEEN \o Format(dp1) \o AND_BETWEEN
                           \o Format(dp2)))
          @@ ("generatedAtTime" :> now_iso)
          @@ ("datasets" :>
                <<DatasetEntry(dp1, Get(report, "dataprofile1_content_type"),
                               GetDict(report, "distribution_dataset1"),
                               GetDict(report, "txt_structure_dataset1"),
                               GetDict(report, "csv_structure_dataset1")),
                  DatasetEntry(dp2, Get(report, "dataprofile2_content_type"),
                               GetDict(report, "distribution_dataset2"),
                               GetDict(report, "txt_structure_dataset2"),
                               GetDict(report, "csv_structure_dataset2"))>>)
          @@ ("comparisons" :>
                [text |->
                   [commonDocumentNames    |-> GetBuilt(tc, "common_document_names"),
                    commonDocumentKeywords |-> GetBuilt(tc, "common_document_keywords"),
                    perDocumentKeywordOverlap |->
                        GetBuilt(tc, "per_document_keyword_overlap")],
                 csv  |->
                   [commonColumns          |-> GetBuilt(cc, "common_columns"),
                    perColumnSampleOverlap |->
                        GetBuilt(cc, "per_column_sample_overlap")]])
          @@ ("summary" :> Get(report, "note"))

(***************************************************************************)
(* 7) The front ends that produce a refinement profile:                    *)
(*    FastAPI /api/refine/download, the FastAPI refine job                 *)
(*    (/api/jobs/refine and _run_refine_job) and Flask /refine_download.   *)
(*    front.pc names the line of the handler that runs next.               *)
(***************************************************************************)
MSG_QUEUED == <<"Q", "u", "e", "u", "e", "d">>

MSG_STARTING_REFINE ==
    <<"S", "t", "a", "r", "t", "i", "n", "g", " ", "r", "e", "f", "i", "n", "e",
      " ", "j", "o", "b", ".", ".", ".">>

MSG_RUNNING_REFINEMENT ==
    <<"R", "u", "n", "n", "i", "n", "g", " ", "r", "e", "f", "i", "n", "e", "m",
      "e", "n", "t", ".", ".", ".">>

MSG_BUILDING_PROFILE ==
    <<"B", "u", "i", "l", "d", "i", "n", "g", " ", "r", "e", "f", "i", "n", "e",
      "m", "e", "n", "t", " ", "p", "r", "o", "f", "i", "l", "e", ".", ".", ".">>

MSG_COMPLETED == <<"C", "o", "m", "p", "l", "e", "t", "e", "d">>

\* str(e) of the exception json.loads raises, and the formatted traceback
EXC_TEXT ==
    <<"E", "x", "p", "e", "c", "t", "i", "n", "g", " ", "v", "a", "l", "u", "e">>

TRACEBACK == <<"T", "r", "a", "c", "e", "b", "a", "c", "k">>

\* str(uuid.uuid4()) of the one job
JOB_ID == <<"j", "o", "b", "-", "1">>

\* datetime.now(timezone.utc) at the moment the profile is built
Timestamps ==
    {<<"2", "0", "2", "6", "-", "0", "1", "-", "0", "1", "T", "0", "0", ":",
       "0", "0", ":", "0", "0", "Z">>,
     <<"2", "0", "2", "6", "-", "0", "1", "-", "0", "1", "T", "0", "0", ":",
       "0", "0", ":", "0", "1", "Z">>}

\* a test of the returned value that never finds an error
ReportHasErrorNever(report) == FALSE

\* isinstance(report, dict) and report.get("error")
\* (fastapi_app.py:101, 398)
ReportHasError(report) == "error" \in DOMAIN report /\ Truthy(report["error"])

\* isinstance(report, dict) and "error" in report   (flask_app.py:302)
ReportHasErrorKey(report) == "error" \in DOMAIN report

\* the locals of the stages, which the front ends do not see
stages == <<dp, content_type, dist, txt, csv, txt_cmp, csv_cmp>>

Handling(handler, pc) == front.handler = handler /\ front.pc = pc

Goto(pc) == front' = [front EXCEPT !.pc = pc]

Respond(status, detail) ==
    front' = [front EXCEPT !.pc = "done",
                           !.response = [status |-> status, detail |-> detail]]

\* report = refine_similarity(folder, d1, d2, ...) at line `from` of the
\* handler; an exception continues at `except`
CallRefine(handler, from, to, except) ==
    /\ Handling(handler, from)
    /\ LET out == refine_similarity(FOLDER, NAME_A, NAME_B, files[1], files[2])
       IN  front' = [front EXCEPT
                       !.kind   = out.kind,
                       !.report = IF out.kind = "raise" THEN @ ELSE out.value,
                       !.pc     = IF out.kind = "raise" THEN except ELSE to]
    /\ ran' = ran \cup {<<"refine_similarity", 0>>}
    /\ UNCHANGED <<stages, result, files, disk, request, peer, JOBS>>

\* profile = build_refinement_profile(report)
CallBuild(handler, from, to) ==
    /\ Handling(handler, from)
    /\ \E now_iso \in Timestamps :
          front' = [front EXCEPT
                      !.profile = build_refinement_profile(front.report, now_iso),
                      !.pc      = to]
    /\ ran' = ran \cup {<<"build_refinement_profile", 0>>}
    /\ UNCHANGED <<stages, result, files, disk, request, peer, JOBS>>

\* FastAPI answers an exception that leaves the endpoint with status 500
\* (fastapi_app.py:397); Flask's handler catches it (flask_app.py:299-300)
RespondException(handler) ==
    /\ Handling(handler, "except")
    /\ Respond(500, EXC_TEXT)
    /\ UNCHANGED <<stages, ran, result, files, disk, request, peer, JOBS>>

\* fastapi_app.py:398-399
ApiCheck ==
    /\ Handling("api_refine_download", "L398")
    /\ IF ReportHasError(front.report)
       THEN Respond(400, front.report["error"])
       ELSE Goto("L401")
    /\ UNCHANGED <<stages, ran, result, files, disk, request, peer, JOBS>>

\* fastapi_app.py:402-403, flask_app.py:307-322: the profile is sent
SendProfile(handler, from) ==
    /\ Handling(handler, from)
    /\ Respond(200, << >>)
    /\ UNCHANGED <<stages, ran, result, files, disk, request, peer, JOBS>>

\* flask_app.py:285-291
FlaskParams ==
    /\ Handling("refine_download", "L285")
    /\ IF front.params_ok THEN Goto("L293") ELSE Respond(400, << >>)
    /\ UNCHANGED <<stages, ran, result, files, disk, request, peer, JOBS>>

\* flask_app.py:302-303
FlaskCheck ==
    /\ Handling("refine_download", "L302")
    /\ IF ReportHasErrorKey(front.report)
       THEN Respond(400, front.report["error"])
       ELSE Goto("L305")
    /\ UNCHANGED <<stages, ran, result, files, disk, request, peer, JOBS>>

\* fastapi_app.py:501-524: the job is registered and its task scheduled
api_job_start_refine ==
    /\ Handling("_run_refine_job", "L503")
    /\ JOBS' = (JOB_ID :>
                  [job_id   |-> JOB_ID,
                   type     |-> "refine",
                   status   |-> "queued",
                   progress |-> 0,
                   message  |-> MSG_QUEUED,
                   params   |-> [folder |-> FOLDER, d1 |-> NAME_A, d2 |-> NAME_B,
                                 kw |-> 600, desc |-> 300, head |-> 100,
                                 th |-> 30, normalized |-> FALSE],
                   result   |-> None])
    /\ front' = [front EXCEPT !.pc = "L91",
                              !.response = [status |-> 200, detail |-> << >>]]
    /\ UNCHANGED <<stages, ran, result, files, disk, request, peer>>

\* JOBS[job_id][key] = value at line `from` of _run_refine_job
JobWrite(from, key, value, to) ==
    /\ Handling("_run_refine_job", from)
    /\ JOBS' = [JOBS EXCEPT ![JOB_ID][key] = value]
    /\ Goto(to)
    /\ UNCHANGED <<stages, ran, result, files, disk, request, peer>>

\* fastapi_app.py:101
JobCheck ==
    /\ Handling("_run_refine_job", "L101")
    /\ IF ReportHasError(front.report) THEN Goto("L102") ELSE Goto("L107")
    /\ UNCHANGED <<stages, ran, result, files, disk, request, peer, JOBS>>

\* fastapi_app.py:104
JobErrorMessage ==
    /\ Handling("_run_refine_job", "L104")
    /\ JOBS' = [JOBS EXCEPT ![JOB_ID].message = front.report["error"]]
    /\ Goto("done")
    /\ UNCHANGED <<stages, ran, result, files, disk, request, peer>>

\* fastapi_app.py:115
JobResult ==
    /\ Handling("_run_refine_job", "L115")
    /\ JOBS' = [JOBS EXCEPT ![JOB_ID].result = front.profile]
    /\ Goto("done")
    /\ UNCHANGED <<stages, ran, result, files, disk, request, peer>>

\* fastapi_app.py:121
JobTraceback ==
    /\ Handling("_run_refine_job", "L121")
    /\ JOBS' = [JOBS EXCEPT ![JOB_ID] = @ @@ ("traceback" :> TRACEBACK)]
    /\ Goto("done")
    /\ UNCHANGED <<stages, ran, result, files, disk, request, peer>>

Handlers == {"api_refine_download", "_run_refine_job", "refine_download"}

FirstLine(handler) ==
    CASE handler = "api_refine_download" -> "L397"
      [] handler = "_run_refine_job"     -> "L503"
      [] handler = "refine_download"     -> "L285"

\* the files the front ends are run on
FrontFiles ==
    {Missing, Malformed, JsonFile(NoDistribution), JsonFile(SparseProfile),
     JsonFile(ScenarioProfile), JsonFile(ManifestLowerProfile)}

InitFrontend ==
    /\ files \in [Sides -> FrontFiles]
    /\ dp = [i \in Sides |-> NotRun]
    /\ Idle
    /\ \E handler \in Handlers, params_ok \in BOOLEAN :
          /\ params_ok \/ handler = "refine_download"
          /\ front = [handler   |-> handler,
                      pc        |-> FirstLine(handler),
                      params_ok |-> params_ok,
                      kind      |-> NotRun,
                      report    |-> NotRun,
                      profile   |-> NotRun,
                      response  |-> [status |-> 0, detail |-> << >>]]

NextFrontend ==
    \/ CallRefine("api_refine_download", "L397", "L398", "except")
    \/ RespondException("api_refine_download")
    \/ ApiCheck
    \/ CallBuild("api_refine_download", "L401", "L402")
    \/ SendProfile("api_refine_download", "L402")
    \/ FlaskParams
    \/ CallRefine("refine_download", "L293", "L302", "except")
    \/ RespondException("refine_download")
    \/ FlaskCheck
    \/ CallBuild("refine_download", "L305", "L307")
    \/ SendProfile("refine_download", "L307")
    \/ api_job_start_refine
    \/ JobWrite("L91", "status", "in_progress", "L92")
    \/ JobWrite("L92", "progress", 5, "L93")
    \/ JobWrite("L93", "message", MSG_STARTING_REFINE, "L97")
    \/ JobWrite("L97", "progress", 60, "L98")
    \/ JobWrite("L98", "message", MSG_RUNNING_REFINEMENT, "L100")
    \/ CallRefine("_run_refine_job", "L100", "L101", "L118")
    \/ JobCheck
    \/ JobWrite("L102", "status", "failed", "L103")
    \/ JobWrite("L103", "progress", 100, "L104")
    \/ JobErrorMessage
    \/ JobWrite("L107", "progress", 90, "L108")
    \/ JobWrite("L108", "message", MSG_BUILDING_PROFILE, "L110")
    \/ CallBuild("_run_refine_job", "L110", "L112")
    \/ JobWrite("L112", "status", "completed", "L113")
    \/ JobWrite("L113", "progress", 100, "L114")
    \/ JobWrite("L114", "message", MSG_COMPLETED, "L115")
    \/ JobResult
    \/ JobWrite("L118", "status", "failed", "L119")
    \/ JobWrite("L119", "progress", 100, "L120")
    \/ JobWrite("L120", "message", EXC_TEXT, "L121")
    \/ JobTraceback

SpecFrontend == InitFrontend /\ [][NextFrontend]_vars

(***************************************************************************)
(* The front ends: claim C16                                               *)
(***************************************************************************)
\* the call of refine_similarity returned the error object to the handler
ErrorReturned == front.kind = "return" /\ IsErrorObject(front.report)

\* a job's result is null: None is a one-element value, a profile has six keys
IsNone(v) == Cardinality(DOMAIN v) = 1

\* C16: on each of the three front-end paths, once refine_similarity has
\* returned an error object build_refinement_profile is never invoked and no
\* profile exists; /api/refine/download and /refine_download end with status
\* 400 carrying the error text, and the job keeps a null result and ends
\* failed with the error text as its message.
C16_NoBuildOnError ==
    ErrorReturned =>
        /\ ~Ran("build_refinement_profile", 0)
        /\ front.profile = NotRun
        /\ front.handler = "_run_refine_job" =>
              /\ IsNone(JOBS[JOB_ID].result)
              /\ JOBS[JOB_ID].status # "completed"
              /\ front.pc = "done" =>
                    /\ JOBS[JOB_ID].status = "failed"
                    /\ JOBS[JOB_ID].message = front.report["error"]
        /\ (front.handler # "_run_refine_job" /\ front.pc = "done") =>
              /\ front.response.status = 400
              /\ front.response.detail = front.report["error"]

\* the job ran on a folder where a.json is missing and has ended failed
C16_Witness ==
    /\ Handling("_run_refine_job", "done")
    /\ files[1] = Missing /\ files[2] = JsonFile(ScenarioProfile)
    /\ ErrorReturned
    /\ JOBS[JOB_ID].status = "failed"

(***************************************************************************)
(* 8) The similarity cache: get_DLRepository_path (utils.py) and           *)
(*    compute_similarities (similarity.py).  Weights are in thousandths,   *)
(*    similarities of one measure in percent, combined similarities in     *)
(*    hundredths of a percent (the two decimals the code rounds to).       *)
(***************************************************************************)
KW_PART == <<"_", "k", "w">>

DESC_PART == <<"_", "d", "e", "s", "c">>

HEAD_PART == <<"_", "h", "e", "a", "d">>

JSON_SUFFIX == <<".", "j", "s", "o", "n">>

\* s.replace(old, new) for one character by one character
ReplaceChar(s, old, new) ==
    [i \in 1..Len(s) |-> IF s[i] = old THEN new ELSE s[i]]

\* s.replace(old, "") for one character
RemoveChar(s, old) == SelectSeq(s, LAMBDA c : c # old)

\* f"{w:.2f}" of a weight below ten whose third decimal is not 5
TwoDecimals(w) ==
    LET h == (w + 5) \div 10
    IN  Str(h \div 100)
          \o <<".", DigitChars[((h \div 10) % 10) + 1], DigitChars[(h % 10) + 1]>>

\* the name of the cache file within CACHE_DIR
get_DLRepository_path(folder, kw, desc, head) ==
    LET safe_folder ==
          RemoveChar(ReplaceChar(ReplaceChar(folder, "\\", "_"), "/", "_"), ":")
    IN  safe_folder \o KW_PART \o TwoDecimals(kw) \o DESC_PART \o TwoDecimals(desc)
          \o HEAD_PART \o TwoDecimals(head) \o JSON_SUFFIX

\* Path.home() / "Desktop" / "Profiles"
DEFAULT_FOLDER ==
    <<"/", "h", "o", "m", "e", "/", "u", "s", "e", "r", "/", "D", "e", "s", "k",
      "t", "o", "p", "/", "P", "r", "o", "f", "i", "l", "e", "s">>

\* the two error texts, after their leading symbol
FOLDER_NOT_FOUND ==
    <<"F", "o", "l", "d", "e", "r", " ", "n", "o", "t", " ", "f", "o", "u", "n",
      "d", ":", " ">>

NO_JSON_FILES ==
    <<"N", "o", " ", ".", "j", "s", "o", "n", " ", "f", "i", "l", "e", "s", " ",
      "f", "o", "u", "n", "d", ".">>

FOLDER_A_SLASH_B == <<"a", "/", "b">>

FOLDER_A_UNDER_B == <<"a", "_", "b">>

FOLDER_VOID == <<"v", "o", "i", "d">>

X_JSON == <<"x", ".", "j", "s", "o", "n">>

Y_JSON == <<"y", ".", "j", "s", "o", "n">>

\* a pair of profiles of a folder with the similarity each of the three
\* measures gives it (similarity.py:86-102), in percent
Pair(file1, file2, keyword, description, headline) ==
    [dataprofile1 |-> file1, dataprofile2 |-> file2,
     keyword_similarity |-> keyword, desc_similarity |-> description,
     head_similarity |-> headline]

\* the folders on disk: folder.exists() and the pairs of its *.json files
Folders ==
    (FOLDER_A_SLASH_B :> [exists |-> TRUE,
                          pairs  |-> <<Pair(X_JSON, Y_JSON, 50, 80, 40)>>])
      @@ (FOLDER_A_UNDER_B :> [exists |-> TRUE,
                               pairs  |-> <<Pair(X_JSON, Y_JSON, 0, 20, 10)>>])
      @@ (FOLDER_VOID :> [exists |-> TRUE, pairs |-> << >>])
      @@ (DEFAULT_FOLDER :> [exists |-> FALSE, pairs |-> << >>])

\* similarity.py:104-108, before rounding: in units of 1/1000 percent
combined_score(p, kw_weight, desc_weight, head_weight) ==
    kw_weight * p.keyword_similarity + desc_weight * p.desc_similarity
      + head_weight * p.head_similarity

\* round(x, 2) of a score given in units of 1/1000 percent
Round2(x) == (x + 5) \div 10

\* similarity.py:110-129: one record of the result
SimilarityRecord(p, kw_weight, desc_weight, head_weight, threshold) ==
    [dataprofile1           |-> p.dataprofile1,
     dataprofile2           |-> p.dataprofile2,
     keywords_similarity    |-> 100 * p.keyword_similarity,
     description_similarity |-> 100 * p.desc_similarity,
     headline_similarity    |-> 100 * p.head_similarity,
     combined_similarity    |->
         Round2(combined_score(p, kw_weight, desc_weight, head_weight)),
     passes_threshold       |->
         combined_score(p, kw_weight, desc_weight, head_weight) >= 1000 * threshold]

\* a variant that returns the stored flag
RethresholdStored(s, threshold) == s

\* similarity.py:47-48: the flag is recomputed from the stored, rounded score
Rethreshold(s, threshold) ==
    [s EXCEPT !.passes_threshold = (s.combined_similarity >= 100 * threshold)]

\* a cache file that json.load rejects
Corrupt == [json |-> FALSE]

\* a cache file written by similarity.py:132-134; `by` remembers the folder
\* and the weights of the call that wrote it
Stored(similarities, folder, kw_weight, desc_weight, head_weight) ==
    [json |-> TRUE, similarities |-> similarities,
     by |-> [folder |-> folder, kw |-> kw_weight, desc |-> desc_weight,
             head |-> head_weight]]

Returns(folder_path, kw_weight, desc_weight, head_weight, threshold, error, similarities, from_DLRepository) ==
    [made |-> TRUE, folder_path |-> folder_path, kw_weight |-> kw_weight,
     desc_weight |-> desc_weight, head_weight |-> head_weight,
     threshold |-> threshold, error |-> error, similarities |-> similarities,
     from_DLRepository |-> from_DLRepository]

\* similarity.py:37
FolderOf(folder_path) == IF Truthy(folder_path) THEN folder_path ELSE DEFAULT_FOLDER

\* similarity.py:26-139; `writable` is whether open(..., "w") succeeds
compute_similarities(folder_path, kw_weight, desc_weight, head_weight, threshold, writable) ==
    LET folder == FolderOf(folder_path)
        DLRepository_path ==
            get_DLRepository_path(folder, kw_weight, desc_weight, head_weight)
        hit == /\ DLRepository_path \in DOMAIN DLRepository
               /\ DLRepository[DLRepository_path].json
        fresh == [i \in 1..Len(Folders[folder].pairs) |->
                    SimilarityRecord(Folders[folder].pairs[i], kw_weight,
                                     desc_weight, head_weight, threshold)]
        Ret(error, similarities, from_DLRepository) ==
            call' = Returns(folder_path, kw_weight, desc_weight, head_weight,
                            threshold, error, similarities, from_DLRepository)
    IN  IF hit
           THEN LET stored == DLRepository[DLRepository_path].similarities
                IN  /\ Ret(None, [i \in 1..Len(stored) |->
                                    Rethreshold(stored[i], threshold)], "True")
                    /\ UNCHANGED DLRepository
           ELSE IF ~Folders[folder].exists
           THEN /\ Ret(FOLDER_NOT_FOUND \o folder, << >>, "False")
                /\ UNCHANGED DLRepository
           ELSE IF Folders[folder].pairs = << >>
           THEN /\ Ret(NO_JSON_FILES, << >>, "False")
                /\ UNCHANGED DLRepository
           ELSE /\ Ret(None, fresh, "None")
                /\ DLRepository' =
                     IF writable
                     THEN (DLRepository_path :>
                             Stored(fresh, folder, kw_weight, desc_weight,
                                    head_weight)) @@ DLRepository
                     ELSE DLRepository

\* a call of compute_similarities from outside the job table
CallComputeSimilarities(folder_path, kw_weight, desc_weight, head_weight, threshold, writable) ==
    /\ front = NoRequest
    /\ compute_similarities(folder_path, kw_weight, desc_weight, head_weight,
                            threshold, writable)
    /\ UNCHANGED <<stages, ran, result, files, peer, front, JOBS, request>>

\* the arguments the calls are made with
FolderPaths == {FOLDER_A_SLASH_B, FOLDER_A_UNDER_B, FOLDER_VOID, None}

Weights == {<<600, 300, 100>>, <<604, 296, 100>>, <<200, 300, 500>>}

Thresholds == {30, 60}

InitCache ==
    /\ files = [i \in Sides |-> Missing]
    /\ dp = [i \in Sides |-> NotRun]
    /\ front = NoRequest
    /\ result = NotRun /\ peer = PeerIdle /\ JOBS = << >>
    /\ content_type = [i \in Sides |-> NotRun]
    /\ dist = [i \in Sides |-> NotRun]
    /\ txt = [i \in Sides |-> NotRun]
    /\ csv = [i \in Sides |-> NotRun]
    /\ txt_cmp = NotRun /\ csv_cmp = NotRun /\ ran = {}
    /\ call = NoCall
    /\ request = NoPoll
    /\ DLRepository \in
         {<< >>,
          (get_DLRepository_path(FOLDER_A_SLASH_B, 600, 300, 100) :> Corrupt)}

NextCache ==
    \E folder_path \in FolderPaths, w \in Weights, threshold \in Thresholds, writable \in BOOLEAN :
        CallComputeSimilarities(folder_path, w[1], w[2], w[3], threshold, writable)

SpecCache == InitCache /\ [][NextCache]_vars

(***************************************************************************)
(* The cache: claim C20                                                    *)
(***************************************************************************)
\* the file the last call looked up
LastEntry ==
    DLRepository[get_DLRepository_path(FolderOf(call.folder_path), call.kw_weight,
                                       call.desc_weight, call.head_weight)]

\* C20: when compute_similarities returns from_cache true, the records it
\* returns were stored by an earlier call with the same folder and the same
\* kw, desc and head weights: calls that differ in the folder or in a weight
\* never share a cache entry.
C20_KeyedByFolderAndWeights ==
    (call.made /\ call.from_DLRepository = "True") =>
        LastEntry.by = [folder |-> FolderOf(call.folder_path),
                        kw     |-> call.kw_weight,
                        desc   |-> call.desc_weight,
                        head   |-> call.head_weight]

(***************************************************************************)
(* The source of a CSV field: claim C21                                    *)
(***************************************************************************)
\* the field's source has a fileSet object that carries no @id
FileSetWithoutId(field) ==
    LET source == GetDict(field, "source")
    IN  "fileSet" \in DOMAIN source /\ "@id" \notin DOMAIN source["fileSet"]

FieldFileObjectId(field) ==
    Get(GetDict(GetDict(field, "source"), "fileObject"), "@id")

\* the column of the field is a column of the table of dataset 1 with this id
ContributesTo(field, id) ==
    \E j \in 1..Len(Tables(csv[1])) :
        /\ Tables(csv[1])[j].id = id
        /\ ColumnName(field) \in DOMAIN Tables(csv[1])[j].columns

IsTableId(id) == \E j \in 1..Len(Tables(csv[1])) : Tables(csv[1])[j].id = id

\* C21: once extract_csv_tables_with_samples has run on dataset 1, every
\* named field whose source.fileSet.@id is a table contributes its column to
\* that table, and every named field whose source has a fileSet object
\* without an @id and a fileObject whose @id is a table contributes its
\* column to the table of the fileObject.
C21_FileObjectFallback ==
    Ran("extract_csv_tables_with_samples", 1) =>
        \A k \in 1..Len(AllFields(dp[1])) :
            LET field == AllFields(dp[1])[k]
            IN  ColumnName(field) # << >> =>
                  /\ IsTableId(FieldFileSetId(field)) =>
                        ContributesTo(field, FieldFileSetId(field))
                  /\ (FileSetWithoutId(field) /\ IsTableId(FieldFileObjectId(field))) =>
                        ContributesTo(field, FieldFileObjectId(field))

(***************************************************************************)
(* extract_txt_documents on one profile: claim C22                         *)
(***************************************************************************)
MaxTxtDist == 2

MaxTxtFields == 2

KW_DATA_PADDED == <<" ", "D", "a", "t", "a", " ">>

KW_BLANK == <<" ">>

\* a text/plain entry that is a file, not a file-set
TxtObject == Entry(CR_FILEOBJECT, ID_T1) @@ ("encodingFormat" :> TEXT_PLAIN)

\* a file-set of CSV files
CsvSet == Entry(CR_FILESET, ID_T2) @@ ("encodingFormat" :> TEXT_CSV)

\* a text file-set without @id
TxtFolderNoId ==
    ("@type" :> CR_FILESET) @@ ("encodingFormat" :> TEXT_PLAIN)

\* a second entry with the @id of TxtFolder, holding CSV files
CsvSetFs1 == Entry(CR_FILESET, ID_FS1) @@ ("encodingFormat" :> TEXT_CSV)

TxtDistList ==
    <<TxtFolder, TxtFolderMixedCase, TxtFolderGuessed, TxtObject, CsvSet,
      TxtFolderNoId, CsvSetFs1>>

\* a document of the file-set whose encoding is guessed
DocGuessed ==
    Field(DG_DOCUMENT, NAME_QTY) @@ FromFileSet(ID_FS3)
        @@ ("keywords" :> None)

\* a document bound to the text file object
DocOnObject == Field(DG_DOCUMENT, NAME_QTY) @@ FromFileSet(ID_T1)

\* a document bound to the CSV file-set
DocOnCsvSet == Field(DG_DOCUMENT, NAME_QTY) @@ FromFileSet(ID_T2)

\* a field of fs1 that is not a document
ColOnFs1 ==
    Field(CR_FIELD, NAME_PRICE_LOWER) @@ FromFileSet(ID_FS1)
        @@ ("keywords" :> List(<<KW_DATA>>))

\* a document without source
DocNoSource == Field(DG_DOCUMENT, NAME_MANIFEST)

\* keywords with a duplicate up to case and padding, and a blank one
DocDupKeywords ==
    Field(DG_DOCUMENT, NAME_PRICE_PADDED) @@ FromFileSet(ID_FS1)
        @@ ("keywords" :> List(<<KW_EXTRA, KW_DATA_PADDED, KW_BLANK, KW_DATA>>))

TxtFieldList ==
    <<DocManifest, DocManifestLower, DocReadme, DocBlank, DocGuessed,
      DocOnObject, DocOnCsvSet, ColOnFs1, DocNoSource, DocDupKeywords>>

SubSeqs(list, n) ==
    {Pick(list, I, 1) :
       I \in {J \in SUBSET (1..Len(list)) : Cardinality(J) <= n}}

TxtProfiles ==
    {Profile(d, <<RecordSet(fields)>>) :
       d \in SubSeqs(TxtDistList, MaxTxtDist),
       fields \in SubSeqs(TxtFieldList, MaxTxtFields)}

InitExtractTxt ==
    /\ dp \in {<<p, NoDistribution>> : p \in TxtProfiles}
    /\ files = [i \in Sides |-> JsonFile(dp[i])]
    /\ front = NoRequest
    /\ Idle

NextExtractTxt == ExtractTxt(1)

SpecExtractTxt == InitExtractTxt /\ [][NextExtractTxt]_vars

\* the distribution has an entry with this @id whose @type ends with
\* "FileSet" and whose resolved encoding is character for character text/plain
IsExactTxtSetId(raw, id) ==
    \E k \in 1..Len(raw) :
        /\ "@id" \in DOMAIN raw[k] /\ raw[k]["@id"] = id
        /\ EndsWith(Or(Get(raw[k], "@type"), << >>), FILESET)
        /\ ResolveEncoding(raw[k]) = TEXT_PLAIN

\* the same with the encoding compared without regard to case
IsTxtSetId(raw, id) ==
    \E k \in 1..Len(raw) :
        /\ "@id" \in DOMAIN raw[k] /\ raw[k]["@id"] = id
        /\ EndsWith(Or(Get(raw[k], "@type"), << >>), FILESET)
        /\ Lower(Or(ResolveEncoding(raw[k]), << >>)) = TEXT_PLAIN

IsNamedDocument(field) ==
    /\ EndsWith(Or(Get(field, "@type"), << >>), DOCUMENT)
    /\ Strip(Or(Get(field, "name"), << >>)) # << >>

\* the keywords of the field as a set: a list, one string, or nothing
KeywordsOf(field) ==
    LET v == Get(field, "keywords")
    IN  IF IsList(v) THEN Elems(Tail(v)) ELSE IF Truthy(v) THEN {v} ELSE {}

\* record d is the document of this field
IsRecordOf(d, field) ==
    /\ d.name = Strip(Get(field, "name"))
    /\ d.name_norm = Lower(Strip(Get(field, "name")))
    /\ IsSortedListOf(d.keywords,
                      {Lower(Strip(k)) : k \in KeywordsOf(field)} \ {<< >>})

\* the documents recorded for file-set id of dataset 1
DocsOf(id) ==
    IF id \in DOMAIN txt[1].documents_by_file_set
    THEN txt[1].documents_by_file_set[id] ELSE << >>

\* for every id, the documents recorded under it are the records, in field
\* order, of exactly the named Document fields whose source.fileSet.@id is
\* that id and is the @id of a text file-set
DocumentsMatch(exact) ==
    LET fields == AllFields(dp[1])
        raw    == RawDistribution(dp[1])
        ids    == DOMAIN txt[1].documents_by_file_set
                    \cup {FieldFileSetId(fields[k]) : k \in 1..Len(fields)}
    IN  \A id \in ids :
           LET from == Pick(fields,
                            {k \in 1..Len(fields) :
                               /\ IsNamedDocument(fields[k])
                               /\ FieldFileSetId(fields[k]) = id
                               /\ IF exact THEN IsExactTxtSetId(raw, id)
                                           ELSE IsTxtSetId(raw, id)}, 1)
           IN  /\ Len(DocsOf(id)) = Len(from)
               /\ \A k \in 1..Len(from) : IsRecordOf(DocsOf(id)[k], from[k])

\* C22 as stated: a document is recorded for a field if and only if its
\* @type ends with "Document", its source.fileSet.@id is the @id of an entry
\* whose @type ends with "FileSet" and whose resolved encoding is exactly
\* text/plain, and its trimmed name is non-empty; the record has the
\* lowercased trimmed name as name_norm and the trimmed, lowercased,
\* non-empty, duplicate-free, sorted keywords.
C22_ExactTextPlain ==
    Ran("extract_txt_documents", 1) => DocumentsMatch(TRUE)

\* C22, amended: the same with the resolved encoding of the file-set equal to
\* text/plain without regard to case.
C22_DocumentIff ==
    Ran("extract_txt_documents", 1) => DocumentsMatch(FALSE)

\* a document with padded, duplicate and blank keywords is recorded, while a
\* field of the same file-set that is not a Document is skipped
C22_Witness ==
    /\ Ran("extract_txt_documents", 1)
    /\ AllFields(dp[1]) = <<ColOnFs1, DocDupKeywords>>
    /\ Len(DocsOf(ID_FS1)) = 1
    /\ DocsOf(ID_FS1)[1].name_norm = NAME_PRICE_LOWER
    /\ DocsOf(ID_FS1)[1].keywords = <<KW_DATA, KW_EXTRA>>

(***************************************************************************)
(* The resolved encoding of one distribution entry: claim C23              *)
(***************************************************************************)
GLOB_PDF == <<"*", ".", "p", "d", "f">>

URL_SQL_UPPER == <<"H", "T", "T", "P", ":", "/", "/", "X", "/", "D", ".", "S", "Q", "L">>

\* d with key k set to each of the values, or without the key
WithKey(S, k, values) ==
    S \cup {(k :> v) @@ d : d \in S, v \in values}

ResolveEntries ==
    WithKey(WithKey(WithKey(WithKey(
        {Entry(CR_FILESET, ID_FS1), Entry(CR_FILEOBJECT, ID_FS1)},
        "encodingFormat", {<< >>, None, TEXT_PLAIN_MIXED_CASE, APPLICATION_PDF}),
        "includes", {GLOB_TXT_UPPER, GLOB_PDF}),
        "contentUrl", {URL_CSV, URL_SQL_UPPER}),
        "name", {NAME_XLSX, NAME_NOTES})

InitResolve ==
    /\ dp \in {<<Profile(<<d>>, << >>), NoDistribution>> : d \in ResolveEntries}
    /\ files = [i \in Sides |-> JsonFile(dp[i])]
    /\ front = NoRequest
    /\ Idle

NextResolve ==
    \/ AnalyzeDistribution(1)
    \/ InferContentType(1)
    \/ ExtractTxt(1)
    \/ ExtractCsv(1)

SpecResolve == InitResolve /\ [][NextResolve]_vars

\* the fixed order of the rules: substring, mime type
RuleTable ==
    <<<<DOT_CSV, TEXT_CSV>>, <<DOT_TXT, TEXT_PLAIN>>, <<DOT_SQL, APPLICATION_SQL>>,
      <<DOT_PDF, APPLICATION_PDF>>, <<DOT_XLS, APPLICATION_EXCEL>>,
      <<DOT_XLSX, APPLICATION_EXCEL>>>>

\* the substring occurs, case-insensitively, in includes, contentUrl or name
OccursInPaths(d, sub) ==
    \E k \in {"includes", "contentUrl", "name"} :
        k \in DOMAIN d /\ Contains(Lower(d[k]), sub)

\* the resolved encoding as the claim defines it
ExpectedEncoding(d) ==
    LET matching == {r \in 1..Len(RuleTable) : OccursInPaths(d, RuleTable[r][1])}
    IN  IF "encodingFormat" \in DOMAIN d /\ d["encodingFormat"] # None
              /\ d["encodingFormat"] # << >>
        THEN d["encodingFormat"]
        ELSE IF matching = {} THEN None
        ELSE RuleTable[CHOOSE r \in matching : \A q \in matching : r <= q][2]

\* the one entry of dataset 1, and its expected encoding in lower case
TheEntry == RawDistribution(dp[1])[1]

ExpectedLower ==
    IF ExpectedEncoding(TheEntry) = None THEN << >>
    ELSE Lower(ExpectedEncoding(TheEntry))

\* the classification of a distribution of one entry with this encoding
ExpectedType ==
    IF ExpectedLower = TEXT_PLAIN THEN "TEXTUAL"
    ELSE IF ExpectedLower = TEXT_CSV \/ Contains(ExpectedLower, EXCEL) THEN "CSV"
    ELSE IF Contains(ExpectedLower, SQL) THEN "SQL"
    ELSE "MIXED"

\* C23: for a distribution of one entry, the analyzer reports as encoding the
\* declared encodingFormat when present and non-empty, whatever the paths,
\* and otherwise the mime type of the first rule of the fixed order whose
\* substring occurs case-insensitively in includes, contentUrl or name, None
\* when there is none; the classifier, the text extractor and the CSV
\* extractor treat the entry according to that same encoding.
C23_ResolvedEncoding ==
    /\ Ran("analyze_distribution", 1) =>
          dist[1].items[1].encodingFormat = ExpectedEncoding(TheEntry)
    /\ Ran("infer_content_type", 1) => content_type[1] = ExpectedType
    /\ Ran("extract_txt_documents", 1) =>
          (ID_FS1 \in DOMAIN txt[1].file_sets
             <=> (TheEntry["@type"] = CR_FILESET /\ ExpectedLower = TEXT_PLAIN))
    /\ Ran("extract_csv_tables_with_samples", 1) =>
          (IsTableId(ID_FS1)
             <=> (ExpectedLower = TEXT_CSV \/ Contains(ExpectedLower, EXCEL)))

\* no declared encoding, *.TXT in includes and .csv in contentUrl: the .csv
\* rule comes first, and all four stages have treated the entry as CSV
C23_Witness ==
    /\ TheEntry = Entry(CR_FILESET, ID_FS1) @@ ("includes" :> GLOB_TXT_UPPER)
                     @@ ("contentUrl" :> URL_CSV)
    /\ Ran("analyze_distribution", 1) /\ dist[1].items[1].encodingFormat = TEXT_CSV
    /\ Ran("infer_content_type", 1) /\ content_type[1] = "CSV"
    /\ Ran("extract_txt_documents", 1) /\ DOMAIN txt[1].file_sets = {}
    /\ Ran("extract_csv_tables_with_samples", 1) /\ IsTableId(ID_FS1)

(***************************************************************************)
(* The distribution summary: claim C24                                     *)
(***************************************************************************)
\* the kind the claim gives an entry
ExpectedKind(d) ==
    LET type == Or(Get(d, "@type"), << >>)
    IN  IF EndsWith(type, FILESET) THEN "folder"
        ELSE IF EndsWith(type, FILEOBJECT) THEN "file"
        ELSE "other"

NumberOfKind(kind) ==
    Cardinality({k \in 1..Len(dist[1].items) : dist[1].items[k].kind = kind})

\* C24: analyze_distribution returns one item per distribution entry, in
\* input order (the item carries the entry's @id, name and contentUrl), of
\* kind folder, file or other according to the ending of @type, with the
\* entry's includes for a folder and None otherwise; folders, files and other
\* count the items of each kind and total = folders + files + other = the
\* number of entries.
C24_DistributionSummary ==
    Ran("analyze_distribution", 1) =>
        LET summary == dist[1]
            items   == summary.items
        IN  /\ Len(items) = Len(Entries1)
            /\ \A k \in 1..Len(items) :
                  /\ items[k].id = Get(Entries1[k], "@id")
                  /\ items[k].name = Get(Entries1[k], "name")
                  /\ items[k].contentUrl = Get(Entries1[k], "contentUrl")
                  /\ items[k].kind = ExpectedKind(Entries1[k])
                  /\ items[k].includes =
                        IF items[k].kind = "folder"
                        THEN Get(Entries1[k], "includes") ELSE None
            /\ summary.folders = NumberOfKind("folder")
            /\ summary.files = NumberOfKind("file")
            /\ summary.other = NumberOfKind("other")
            /\ summary.total = Len(Entries1)
            /\ summary.total = summary.folders + summary.files + summary.other

\* a folder and a file that both carry includes: the folder's is copied,
\* the file's is not
C24_Witness ==
    /\ Ran("analyze_distribution", 1)
    /\ Entries1 = <<TxtFolder, CsvDeclared>>
    /\ dist[1].items[1].kind = "folder" /\ dist[1].items[1].includes = GLOB_TXT
    /\ dist[1].items[2].kind = "file" /\ dist[1].items[2].includes = None
    /\ dist[1].total = 2 /\ dist[1].folders = 1 /\ dist[1].files = 1

(***************************************************************************)
(* 9) The report job (fastapi_app.py:45-86, 454-484), the report it builds *)
(*    (reports.py) and the requests that read the job table                *)
(*    (fastapi_app.py:530-581), served while the background task runs.     *)
(***************************************************************************)
MSG_STARTING_REPORT ==
    <<"S", "t", "a", "r", "t", "i", "n", "g", " ", "r", "e", "p", "o", "r", "t",
      " ", "j", "o", "b", ".", ".", ".">>

MSG_COMPUTING ==
    <<"C", "o", "m", "p", "u", "t", "i", "n", "g", " ", "s", "i", "m", "i", "l",
      "a", "r", "i", "t", "i", "e", "s", ".", ".", ".">>

MSG_BUILDING_REPORT ==
    <<"B", "u", "i", "l", "d", "i", "n", "g", " ", "r", "e", "p", "o", "r", "t",
      ".", ".", ".">>

\* str(e) of the FileNotFoundError of os.listdir
EXC_NO_DIRECTORY ==
    <<"N", "o", " ", "s", "u", "c", "h", " ", "f", "i", "l", "e", " ", "o", "r",
      " ", "d", "i", "r", "e", "c", "t", "o", "r", "y">>

PROFILE_PREFIX == <<"p", "r", "o", "f", "i", "l", "e", ":">>

SIMILARITY_REPORT ==
    <<"D", "a", "t", "a", "s", "e", "t", "S", "i", "m", "i", "l", "a", "r", "i",
      "t", "y", "R", "e", "p", "o", "r", "t">>

\* fastapi_app.py:41-42
_normalize_folder_path(folder) ==
    ReplaceChar(Strip(Or(folder, << >>)), "\\", "/")

\* utils.py:29-35, on weights in thousandths that divide without remainder
normalize_weights(kw, desc, head) ==
    LET total == kw + desc + head
    IN  IF total > 0 /\ total # 1000
        THEN [kw |-> (kw * 1000) \div total, desc |-> (desc * 1000) \div total,
              head |-> (head * 1000) \div total, normalized |-> TRUE]
        ELSE [kw |-> kw, desc |-> desc, head |-> head, normalized |-> FALSE]

RECURSIVE Remove(_, _)
\* s.replace(sub, "")
Remove(s, sub) ==
    IF Len(s) < Len(sub) THEN s
    ELSE IF SubSeq(s, 1, Len(sub)) = sub
         THEN Remove(SubSeq(s, Len(sub) + 1, Len(s)), sub)
         ELSE <<Head(s)>> \o Remove(Tail(s), sub)

ProfileId(name) == PROFILE_PREFIX \o Remove(name, JSON_SUFFIX)

\* reports.py:12: os.listdir(folder_path) raises unless the folder exists
ListdirRaises(folder_path) ==
    ~(folder_path \in DOMAIN Folders /\ Folders[folder_path].exists)

\* reports.py:27-93: the report of the folder; an element carries the name
\* and id of a profile, a link the two profile ids and the four metrics
build_croissant_report(folder_path, weights, similarities) ==
    LET names == Sorted({similarities[i].dataprofile1 : i \in 1..Len(similarities)}
                          \cup {similarities[i].dataprofile2 : i \in 1..Len(similarities)})
    IN  [type           |-> SIMILARITY_REPORT,
         analyzedFolder |-> folder_path,
         weights        |-> weights,
         elements       |-> [i \in 1..Len(names) |->
                               [id |-> ProfileId(names[i]), name |-> names[i]]],
         links          |->
            [i \in 1..Len(similarities) |->
               [dataprofile1 |-> ProfileId(similarities[i].dataprofile1),
                dataprofile2 |-> ProfileId(similarities[i].dataprofile2),
                metrics |->
                   [keywords_similarity    |-> similarities[i].keywords_similarity,
                    description_similarity |-> similarities[i].description_similarity,
                    headline_similarity    |-> similarities[i].headline_similarity,
                    combined_similarity    |-> similarities[i].combined_similarity]]]]

\* fastapi_app.py:465-484: the job is registered and its task scheduled
api_job_start_report ==
    /\ Handling("_run_report_job", "L465")
    /\ LET w == normalize_weights(front.params.kw, front.params.desc,
                                  front.params.head)
       IN  /\ JOBS' = (JOB_ID :>
                         [job_id   |-> JOB_ID,
                          type     |-> "report",
                          status   |-> "queued",
                          progress |-> 0,
                          message  |-> MSG_QUEUED,
                          params   |-> [folder |-> front.params.folder,
                                        kw |-> w.kw, desc |-> w.desc,
                                        head |-> w.head, th |-> front.params.th,
                                        normalized |-> w.normalized],
                          result   |-> None])
           /\ front' = [front EXCEPT
                          !.pc = "L47",
                          !.params = [@ EXCEPT !.kw = w.kw, !.desc = w.desc,
                                               !.head = w.head],
                          !.response = [status |-> 200, detail |-> << >>]]
    /\ UNCHANGED <<stages, ran, result, files, disk, request, peer>>

\* JOBS[job_id][key] = value at line `from` of _run_report_job
ReportWrite(from, key, value, to) ==
    /\ Handling("_run_report_job", from)
    /\ JOBS' = [JOBS EXCEPT ![JOB_ID][key] = value]
    /\ Goto(to)
    /\ UNCHANGED <<stages, ran, result, files, disk, request, peer>>

\* fastapi_app.py:51
ReportNormalizeFolder ==
    /\ Handling("_run_report_job", "L51")
    /\ front' = [front EXCEPT
                   !.pc = "L53",
                   !.params.folder = _normalize_folder_path(front.params.folder)]
    /\ UNCHANGED <<stages, ran, result, files, disk, request, peer, JOBS>>

\* fastapi_app.py:56
ReportCompute ==
    /\ Handling("_run_report_job", "L56")
    /\ \E writable \in BOOLEAN :
          compute_similarities(front.params.folder, front.params.kw,
                               front.params.desc, front.params.head,
                               front.params.th, writable)
    /\ Goto("L57")
    /\ ran' = ran \cup {<<"compute_similarities", 0>>}
    /\ UNCHANGED <<stages, result, files, request, peer, JOBS>>

\* fastapi_app.py:57
\* a variant that waits at line 57 while the result carries an error
ReportCheckWaits ==
    /\ Handling("_run_report_job", "L57")
    /\ IF Truthy(call.error) THEN Goto("L57") ELSE Goto("L63")
    /\ UNCHANGED <<stages, ran, result, files, disk, request, peer, JOBS>>

ReportCheck ==
    /\ Handling("_run_report_job", "L57")
    /\ IF Truthy(call.error) THEN Goto("L58") ELSE Goto("L63")
    /\ UNCHANGED <<stages, ran, result, files, disk, request, peer, JOBS>>

\* fastapi_app.py:60-61
ReportErrorMessage ==
    /\ Handling("_run_report_job", "L60")
    /\ JOBS' = [JOBS EXCEPT ![JOB_ID].message = call.error]
    /\ Goto("done")
    /\ UNCHANGED <<stages, ran, result, files, disk, request, peer>>

\* fastapi_app.py:66-75
ReportBuild ==
    /\ Handling("_run_report_job", "L66")
    /\ IF ListdirRaises(front.params.folder)
       THEN front' = [front EXCEPT !.kind = "raise", !.pc = "L83"]
       ELSE front' = [front EXCEPT
               !.kind   = "return",
               !.pc     = "L77",
               !.report =
                  ("from_cache" :> call.from_DLRepository)
                    @@ build_croissant_report(
                          front.params.folder,
                          [keywords    |-> front.params.kw,
                           description |-> front.params.desc,
                           headline    |-> front.params.head,
                           normalized  |-> JOBS[JOB_ID].params.normalized,
                           threshold   |-> front.params.th],
                          call.similarities)]
    /\ ran' = ran \cup {<<"build_croissant_report", 0>>}
    /\ UNCHANGED <<stages, result, files, disk, request, peer, JOBS>>

\* fastapi_app.py:80
ReportResult ==
    /\ Handling("_run_report_job", "L80")
    /\ JOBS' = [JOBS EXCEPT ![JOB_ID].result = front.report]
    /\ Goto("done")
    /\ UNCHANGED <<stages, ran, result, files, disk, request, peer>>

\* fastapi_app.py:86
\* a variant whose exception handler starts the job again
ReportTracebackRetry ==
    /\ Handling("_run_report_job", "L86")
    /\ JOBS' = [JOBS EXCEPT ![JOB_ID] = @ @@ ("traceback" :> TRACEBACK)]
    /\ Goto("L47")
    /\ UNCHANGED <<stages, ran, result, files, disk, request, peer>>

ReportTraceback ==
    /\ Handling("_run_report_job", "L86")
    /\ JOBS' = [JOBS EXCEPT ![JOB_ID] = @ @@ ("traceback" :> TRACEBACK)]
    /\ Goto("done")
    /\ UNCHANGED <<stages, ran, result, files, disk, request, peer>>

\* the steps of _run_report_job and of the endpoint that schedules it
ReportJob ==
    \/ api_job_start_report
    \/ ReportWrite("L47", "status", "in_progress", "L48")
    \/ ReportWrite("L48", "progress", 5, "L49")
    \/ ReportWrite("L49", "message", MSG_STARTING_REPORT, "L51")
    \/ ReportNormalizeFolder
    \/ ReportWrite("L53", "progress", 20, "L54")
    \/ ReportWrite("L54", "message", MSG_COMPUTING, "L56")
    \/ ReportCompute
    \/ ReportCheck
    \/ ReportWrite("L58", "status", "failed", "L59")
    \/ ReportWrite("L59", "progress", 100, "L60")
    \/ ReportErrorMessage
    \/ ReportWrite("L63", "progress", 85, "L64")
    \/ ReportWrite("L64", "message", MSG_BUILDING_REPORT, "L66")
    \/ ReportBuild
    \/ ReportWrite("L77", "status", "completed", "L78")
    \/ ReportWrite("L78", "progress", 100, "L79")
    \/ ReportWrite("L79", "message", MSG_COMPLETED, "L80")
    \/ ReportResult
    \/ ReportWrite("L83", "status", "failed", "L84")
    \/ ReportWrite("L84", "progress", 100, "L85")
    \/ ReportWrite("L85", "message", EXC_NO_DIRECTORY, "L86")
    \/ ReportTraceback

\* the steps of _run_refine_job and of the endpoint that schedules it
RefineJob ==
    \/ api_job_start_refine
    \/ JobWrite("L91", "status", "in_progress", "L92")
    \/ JobWrite("L92", "progress", 5, "L93")
    \/ JobWrite("L93", "message", MSG_STARTING_REFINE, "L97")
    \/ JobWrite("L97", "progress", 60, "L98")
    \/ JobWrite("L98", "message", MSG_RUNNING_REFINEMENT, "L100")
    \/ CallRefine("_run_refine_job", "L100", "L101", "L118")
    \/ JobCheck
    \/ JobWrite("L102", "status", "failed", "L103")
    \/ JobWrite("L103", "progress", 100, "L104")
    \/ JobErrorMessage
    \/ JobWrite("L107", "progress", 90, "L108")
    \/ JobWrite("L108", "message", MSG_BUILDING_PROFILE, "L110")
    \/ CallBuild("_run_refine_job", "L110", "L112")
    \/ JobWrite("L112", "status", "completed", "L113")
    \/ JobWrite("L113", "progress", 100, "L114")
    \/ JobWrite("L114", "message", MSG_COMPLETED, "L115")
    \/ JobResult
    \/ JobWrite("L118", "status", "failed", "L119")
    \/ JobWrite("L119", "progress", 100, "L120")
    \/ JobWrite("L120", "message", EXC_TEXT, "L121")
    \/ JobTraceback

\* job = JOBS.get(job_id); if not job: 404  (fastapi_app.py:532-534,
\* 551-553, 571-573)
PollLookup ==
    /\ request.pc = "lookup"
    /\ IF JOB_ID \in DOMAIN JOBS
       THEN request' = [request EXCEPT !.pc = "status"]
       ELSE request' = [request EXCEPT !.pc = "done", !.response.status = 404]
    /\ UNCHANGED <<stages, ran, result, files, disk, peer, front, JOBS>>

\* job.get("status") != "completed"  (fastapi_app.py:555, 575)
PollCheck ==
    /\ request.endpoint \in {"api_job_result", "api_job_download"}
    /\ request.pc = "status"
    /\ IF JOBS[JOB_ID].status = "completed"
       THEN request' = [request EXCEPT !.pc = "result"]
       ELSE IF request.endpoint = "api_job_download"
       THEN request' = [request EXCEPT !.pc = "done", !.response.status = 409]
       ELSE request' = [request EXCEPT !.pc = "L558"]
    /\ UNCHANGED <<stages, ran, result, files, disk, peer, front, JOBS>>

\* one entry of the job is read into the body of the answer
\* (fastapi_app.py:538-540, 558-560)
PollRead(endpoint, from, key, to) ==
    /\ request.endpoint = endpoint /\ request.pc = from
    /\ request' = [request EXCEPT
                     !.pc = to,
                     !.response.body = (key :> JOBS[JOB_ID][key]) @@ @,
                     !.response.status = IF to = "done" THEN 200 ELSE @]
    /\ UNCHANGED <<stages, ran, result, files, disk, peer, front, JOBS>>

\* return job["result"]; payload = job["result"]  (fastapi_app.py:563, 578)
PollResult ==
    /\ request.pc = "result"
    /\ request' = [request EXCEPT
                     !.pc = "done",
                     !.response = [status |-> 200,
                                   body   |-> ("result" :> JOBS[JOB_ID].result)]]
    /\ UNCHANGED <<stages, ran, result, files, disk, peer, front, JOBS>>

Poll ==
    \/ PollLookup
    \/ PollRead("api_job_status", "status", "status", "L539")
    \/ PollRead("api_job_status", "L539", "progress", "L540")
    \/ PollRead("api_job_status", "L540", "message", "done")
    \/ PollCheck
    \/ PollRead("api_job_result", "L558", "status", "L559")
    \/ PollRead("api_job_result", "L559", "progress", "L560")
    \/ PollRead("api_job_result", "L560", "message", "done")
    \/ PollResult

\* the files the refine job is run on: absent, not JSON, or a profile that
\* has only its name (the job table does not depend on what the report says)
JobFiles ==
    {<<f1, f2>> : f1 \in {Missing, Malformed, JsonFile(NoDistribution)},
                  f2 \in {Missing, JsonFile(NoDistribution)}}

\* the folder parameter of the report job; a blank one names the default
JobFolders == {FOLDER_A_SLASH_B, FOLDER_VOID, <<" ">>}

JobWeights == {<<600, 300, 100>>, <<300, 150, 50>>}

\* a cache file stored for the default folder before the folder was removed
StaleEntry ==
    get_DLRepository_path(DEFAULT_FOLDER, 600, 300, 100) :>
        Stored(<<SimilarityRecord(Pair(X_JSON, Y_JSON, 50, 80, 40), 600, 300, 100, 30)>>,
               DEFAULT_FOLDER, 600, 300, 100)

Task(handler, first, fs, params) ==
    /\ files = fs
    /\ front = [handler   |-> handler,
                pc        |-> first,
                params_ok |-> TRUE,
                params    |-> params,
                kind      |-> NotRun,
                report    |-> NotRun,
                profile   |-> NotRun,
                response  |-> [status |-> 0, detail |-> << >>]]

InitJobs ==
    /\ dp = [i \in Sides |-> NotRun]
    /\ result = NotRun /\ peer = PeerIdle /\ JOBS = << >>
    /\ content_type = [i \in Sides |-> NotRun]
    /\ dist = [i \in Sides |-> NotRun]
    /\ txt = [i \in Sides |-> NotRun]
    /\ csv = [i \in Sides |-> NotRun]
    /\ txt_cmp = NotRun /\ csv_cmp = NotRun /\ ran = {}
    /\ call = NoCall
    /\ \E endpoint \in {"api_job_status", "api_job_result", "api_job_download"} :
          request = [endpoint |-> endpoint, pc |-> "lookup",
                     response |-> [status |-> 0, body |-> << >>]]
    /\ \/ /\ DLRepository = << >>
          /\ \E fs \in JobFiles :
                Task("_run_refine_job", "L503", fs,
                     [folder |-> FOLDER, kw |-> 600, desc |-> 300, head |-> 100,
                      th |-> 30])
       \/ /\ DLRepository \in {<< >>, StaleEntry}
          /\ \E folder \in JobFolders, w \in JobWeights :
                Task("_run_report_job", "L465", <<Missing, Missing>>,
                     [folder |-> folder, kw |-> w[1], desc |-> w[2],
                      head |-> w[3], th |-> 30])

NextJobs == ReportJob \/ RefineJob \/ Poll

SpecJobs == InitJobs /\ [][NextJobs]_vars

\* the background task is run
SpecJobsFair == SpecJobs /\ WF_vars(ReportJob \/ RefineJob)

(***************************************************************************)
(* The job table: claims C25, C26, C27                                     *)
(***************************************************************************)
Registered == JOB_ID \in DOMAIN JOBS

\* the report or profile the background task has finished building
Finished ==
    IF front.handler = "_run_refine_job" THEN front.profile ELSE front.report

\* a completed job has progress 100 and the finished result
CompletedIsFinished ==
    (Registered /\ JOBS[JOB_ID].status = "completed") =>
        /\ JOBS[JOB_ID].progress = 100
        /\ ~IsNone(JOBS[JOB_ID].result)
        /\ JOBS[JOB_ID].result = Finished

\* /api/jobs/{id}/result and /download, having seen status completed, have
\* not answered with a null result
ResultNeverNull ==
    (request.pc = "done" /\ "result" \in DOMAIN request.response.body) =>
        ~IsNone(request.response.body["result"])

\* C25: in every state of the job table that a concurrent status, result or
\* download request can observe, a completed job has progress 100 and a
\* non-null result equal to the finished report or profile, and the result
\* endpoint never returns null for a completed job.
C25_CompletedHasResult == CompletedIsFinished /\ ResultNeverNull

Terminal == {"completed", "failed"}

\* the status changes of one job that the claim allows
StatusSteps ==
    {<<"queued", "in_progress">>, <<"in_progress", "completed">>,
     <<"in_progress", "failed">>}

\* C26: a job changes status only along queued -> in_progress -> completed
\* or queued -> in_progress -> failed, starting as queued; completed and
\* failed are never left, so a job is never both; its progress never
\* decreases; a failed job has a null result.
C26_StatusOrder ==
    /\ [][/\ (~Registered /\ Registered') => JOBS'[JOB_ID].status = "queued"
          /\ Registered =>
                /\ Registered'
                /\ \/ JOBS'[JOB_ID].status = JOBS[JOB_ID].status
                   \/ <<JOBS[JOB_ID].status, JOBS'[JOB_ID].status>> \in StatusSteps
                /\ JOBS'[JOB_ID].progress >= JOBS[JOB_ID].progress]_vars
    /\ [](Registered =>
            (JOBS[JOB_ID].status = "failed" => IsNone(JOBS[JOB_ID].result)))

\* a refine job on a malformed profile has failed through the exception
\* handler, with progress 100 and a null result
C26_Witness ==
    /\ Registered /\ Handling("_run_refine_job", "done")
    /\ files[1] = Malformed
    /\ JOBS[JOB_ID].status = "failed" /\ JOBS[JOB_ID].progress = 100
    /\ "traceback" \in DOMAIN JOBS[JOB_ID]
    /\ IsNone(JOBS[JOB_ID].result)

\* C27: when the background task is run, every registered job eventually
\* has status completed or failed, and keeps it; a job that failed has a
\* non-empty message.
C27_JobEnds ==
    /\ Registered ~> (Registered /\ JOBS[JOB_ID].status \in Terminal)
    /\ [][Registered /\ JOBS[JOB_ID].status \in Terminal
            => Registered' /\ JOBS'[JOB_ID].status = JOBS[JOB_ID].status]_vars
    /\ [](Registered =>
            (JOBS[JOB_ID].status = "failed" /\ front.pc = "done"
                => Truthy(JOBS[JOB_ID].message) /\ JOBS[JOB_ID].message # MSG_QUEUED))

\* a report job whose folder has no .json file has ended failed with the
\* error text as message
C27_Witness ==
    /\ Registered /\ Handling("_run_report_job", "done")
    /\ front.params.folder = FOLDER_VOID
    /\ JOBS[JOB_ID].status = "failed"
    /\ JOBS[JOB_ID].message = NO_JSON_FILES

(***************************************************************************)
(* The cache and the threshold: claim C28                                  *)
(***************************************************************************)
\* the cache file of a folder and three weights, whatever the threshold
EntryPath(folder_path, kw_weight, desc_weight, head_weight) ==
    get_DLRepository_path(FolderOf(folder_path), kw_weight, desc_weight, head_weight)

\* the cache holds a readable entry for the arguments of this call
HasEntry(repository, c) ==
    LET path == EntryPath(c.folder_path, c.kw_weight, c.desc_weight, c.head_weight)
    IN  path \in DOMAIN repository /\ repository[path].json

\* C28: a call that finds a readable cache entry for its folder and weights
\* is answered from it whatever its threshold, and every record of an answer
\* from the cache has passes_threshold = (combined_similarity >= the
\* threshold of that call); a call that returns an error leaves the cache as
\* it was.
C28_ThresholdOfTheCall ==
    /\ [](call.made /\ call.from_DLRepository = "True" =>
            \A i \in 1..Len(call.similarities) :
                call.similarities[i].passes_threshold
                  = (call.similarities[i].combined_similarity >= 100 * call.threshold))
    /\ [][/\ (call'.made /\ HasEntry(DLRepository, call'))
                => call'.from_DLRepository = "True"
          /\ (call'.made /\ Truthy(call'.error)) => DLRepository' = DLRepository]_vars

\* a call with threshold 60 was answered from the entry a call with
\* threshold 30 wrote: the stored flag is true, the returned one false
C28_Witness ==
    /\ call.made /\ call.from_DLRepository = "True" /\ call.threshold = 60
    /\ LastEntry.similarities[1].passes_threshold
    /\ ~call.similarities[1].passes_threshold

(***************************************************************************)
(* Each side of the report depends on its own profile: claim C29           *)
(***************************************************************************)
\* the fields of a report that describe dataset 1, and those of dataset 2
SideFields(report, i) ==
    IF i = 1
    THEN <<report.dataprofile1_content_type, report.distribution_dataset1,
           report.txt_structure_dataset1, report.csv_structure_dataset1,
           report.txt_comparison.dataset1_document_names,
           report.txt_comparison.dataset1_document_keywords,
           report.csv_schema_comparison.dataset1_columns>>
    ELSE <<report.dataprofile2_content_type, report.distribution_dataset2,
           report.txt_structure_dataset2, report.csv_structure_dataset2,
           report.txt_comparison.dataset2_document_names,
           report.txt_comparison.dataset2_document_keywords,
           report.csv_schema_comparison.dataset2_columns>>

\* the profiles the other side is exchanged for
OtherProfiles == {NoDistribution, ScenarioProfile, BareAndReadme}

\* C29: the fields of dataset 1 in the report that refine_similarity returns
\* are those of any call with the same first profile and another second
\* profile, and the fields of dataset 2 are those of any call with the same
\* second profile and another first profile.
C29_SideOfItsProfile ==
    ReportReturned =>
        \A q \in OtherProfiles :
            /\ SideFields(result, 1)
                 = SideFields(Refine(NAME_A, NAME_B, files[1].value, q), 1)
            /\ SideFields(result, 2)
                 = SideFields(Refine(NAME_A, NAME_B, q, files[2].value), 2)

\* the report of two profiles with documents has been returned, and with
\* another second profile the text comparison as a whole would differ
C29_Witness ==
    /\ ReportReturned
    /\ files[1] = JsonFile(ScenarioProfile)
    /\ files[2] = JsonFile(ManifestLowerProfile)
    /\ result.txt_comparison.dataset1_document_names # << >>
    /\ Refine(NAME_A, NAME_B, files[1].value, NoDistribution).txt_comparison
         # result.txt_comparison

(***************************************************************************)
(* Keywords of documents within the keywords of their side: claim C30      *)
(***************************************************************************)
\* every keyword list of the seq is within the set
AllWithin(lists, S) == \A k \in 1..Len(lists) : Elems(lists[k]) \subseteq S

\* the keyword lists of the documents of a text structure
DocumentKeywordLists(txt_info) ==
    LET docs == DocsIn(txt_info.documents_by_file_set)
    IN  {d.keywords : d \in docs}

\* C30: in every returned report the common_keywords of each per-document
\* record are within common_document_keywords, the dataset1_keywords and
\* dataset2_keywords of each record and the keywords of each document are
\* within the all_document_keywords of their side, and a note with the
\* sentence on keyword overlap of common-named documents also has the
\* sentences on common document names and on common document keywords.
C30_KeywordsWithin ==
    ReportReturned =>
        LET tc   == result.txt_comparison
            recs == tc.per_document_keyword_overlap
            all1 == Elems(result.txt_structure_dataset1.all_document_keywords)
            all2 == Elems(result.txt_structure_dataset2.all_document_keywords)
        IN  /\ AllWithin([k \in 1..Len(recs) |-> recs[k].common_keywords],
                         Elems(tc.common_document_keywords))
            /\ AllWithin([k \in 1..Len(recs) |-> recs[k].dataset1_keywords], all1)
            /\ AllWithin([k \in 1..Len(recs) |-> recs[k].dataset2_keywords], all2)
            /\ \A l \in DocumentKeywordLists(result.txt_structure_dataset1) :
                  Elems(l) \subseteq all1
            /\ \A l \in DocumentKeywordLists(result.txt_structure_dataset2) :
                  Elems(l) \subseteq all2
            /\ Contains(result.note, TXT_KEYWORD_OVERLAP) =>
                  /\ Contains(result.note, COMMON_DOCUMENT_NAMES)
                  /\ Contains(result.note, COMMON_DOCUMENT_KEYWORDS)

\* a report with one common-named document whose two sides share a keyword
\* and have one more each, and whose note has the overlap sentence
C30_Witness ==
    /\ ReportReturned
    /\ Len(result.txt_comparison.per_document_keyword_overlap) = 1
    /\ result.txt_comparison.per_document_keyword_overlap[1].common_keywords # << >>
    /\ Len(result.txt_comparison.per_document_keyword_overlap[1].dataset1_keywords)
         > Len(result.txt_comparison.per_document_keyword_overlap[1].common_keywords)
    /\ Contains(result.note, TXT_KEYWORD_OVERLAP)

====
